---- MODULE Spec2Model ----
(***************************************************************************)
(* Orchestration core of the AI orchestrator: the shared state, the graph  *)
(* of nodes built by AIOrchestrator._build_graph, the routing functions    *)
(* and the structured-query / code-execution / document-QA / research /    *)
(* chat handlers, as a state machine over one run started by invoke.       *)
(*                                                                         *)
(* Texts are sequences of one-character strings.  Confidences are integer  *)
(* hundredths (0.75 is 75).  None is the string "null".                    *)
(***************************************************************************)
EXTENDS Integers, Sequences, FiniteSets, TLC

\* ------------------------------------------------------------------------
\* Bounds of the exploration
\* ------------------------------------------------------------------------

\* Node executions explored per run; the graph runtime gives up on a run
\* that has not reached END after its step limit.
MaxSteps == 9

\* Largest max_retries a caller seeds into the state.
MaxMaxRetries == 4

\* Largest retry_count a caller seeds into the state.
MaxSeedRetry == 1

\* Runs of one session explored.
MaxRuns == 2

\* ------------------------------------------------------------------------
\* Program constants
\* ------------------------------------------------------------------------

\* SQLAgent.__init__(max_retries=3), the value the orchestrator constructs with
SqlAgentMaxRetries == 3

\* CodeAgent.__init__(max_retries=2)
CodeAgentMaxRetries == 2

\* normalize_state: normalized.setdefault("max_retries", 3)
DefaultMaxRetries == 3

\* _route_after_classification: max(confidence, 0.75)
ResearchBoost == 75

\* _route_after_classification: confidence < 0.4
MinConfidence == 40

\* _route_after_classification: intent_confidence = 0.8 / 0.55 / 0.6
RagTriggerConfidence == 80
RagDocsConfidence == 55
ChatFallbackConfidence == 60

\* _route_after_classification: len(query) > 5, len(query) > 10
TriggerMinLen == 5
DocsMinLen == 10

Null == "null"

\* load_chat_messages(..., limit=50)
HistoryLimit == 50

\* ------------------------------------------------------------------------
\* Text
\* ------------------------------------------------------------------------

UpperAlpha == <<"A","B","C","D","E","F","G","H","I","J","K","L","M",
                "N","O","P","Q","R","S","T","U","V","W","X","Y","Z">>
LowerAlpha == <<"a","b","c","d","e","f","g","h","i","j","k","l","m",
                "n","o","p","q","r","s","t","u","v","w","x","y","z">>

\* str.lower() on one character
LowerChar(c) ==
    IF \E i \in 1..26 : UpperAlpha[i] = c
    THEN LowerAlpha[CHOOSE i \in 1..26 : UpperAlpha[i] = c]
    ELSE c

\* str.lower()
Lower(s) == [i \in 1..Len(s) |-> LowerChar(s[i])]

\* needle in hay
Contains(hay, needle) ==
    \E i \in 1..(Len(hay) - Len(needle) + 1) :
        SubSeq(hay, i, i + Len(needle) - 1) = needle

\* _route_after_classification: research_keywords
research_keywords ==
    { <<"w", "e", "a", "t", "h", "e", "r">>,
      <<"t", "e", "m", "p", "e", "r", "a", "t", "u", "r", "e">>,
      <<"c", "u", "r", "r", "e", "n", "t">>,
      <<"t", "o", "d", "a", "y">>,
      <<"n", "o", "w">>,
      <<"l", "a", "t", "e", "s", "t">>,
      <<"r", "e", "c", "e", "n", "t">>,
      <<"t", "h", "i", "s", " ", "w", "e", "e", "k">>,
      <<"t", "h", "i", "s", " ", "m", "o", "n", "t", "h">> }

\* _route_after_classification: rag_triggers
rag_triggers ==
    { <<"e", "x", "p", "l", "a", "i", "n">>,
      <<"s", "u", "m", "m", "a", "r", "i", "z", "e">>,
      <<"w", "h", "a", "t">>,
      <<"w", "h", "e", "r", "e">>,
      <<"h", "o", "w">>,
      <<"l", "i", "s", "t">>,
      <<"d", "e", "s", "c", "r", "i", "b", "e">>,
      <<"a", "n", "a", "l", "y", "s", "i", "s">>,
      <<"i", "n", "s", "i", "g", "h", "t">> }

\* ------------------------------------------------------------------------
\* Inputs: the queries a caller submits
\* ------------------------------------------------------------------------

QEmpty == <<>>

QWeather == <<"W", "e", "a", "t", "h", "e", "r", " ", "T", "O", "D", "A", "Y">>

QKnow == <<"I", " ", "k", "n", "o", "w", " ", "i", "t">>

QWhat == <<"w", "h", "a", "t">>

QWhatIs == <<"W", "h", "a", "t", " ", "i", "s", " ", "x">>

QLong == <<"t", "e", "l", "l", " ", "m", "e", " ", "a", " ", "j", "o", "k", "e">>

QMid == <<"t", "o", "t", "a", "l", " ", "r", "o", "w">>

Queries == {QEmpty, QWeather, QKnow, QWhat, QWhatIs, QLong, QMid}

\* Intent enum (state/state.py)
Intents == {"rag", "sql", "code", "research", "chat", "unknown"}

\* Confidences the classifier backend reports (hundredths)
Confidences == {0, 39, 40, 90}

\* Artifacts (SQL text or code).  "" is the empty text.  S* pass validation,
\* R* are flagged by it.  *0 are carried in by the caller, *1 are what
\* the generation call returns.
SeedArtifacts == {Null, "", "S0", "R0"}
GenArtifacts == {"S1", "R1"}

\* Python truthiness of an artifact slot
Truthy(a) == a \notin {Null, ""}

\* SQLValidator.validate / CodeValidator.validate: the verdict's
\* requires_approval and risk_level (the verdict itself is a black box)
RequiresApproval(a) == a \in {"R0", "R1"}
RiskLevel(a) == IF RequiresApproval(a) THEN "high" ELSE "low"

\* Message contents and final answers
NoAnswer == [kind |-> Null, text |-> <<>>, art |-> Null, errs |-> <<>>]
UserContent(q) == [kind |-> "query", text |-> q, art |-> Null, errs |-> <<>>]
Answer(k, a, e) == [kind |-> k, text |-> <<>>, art |-> a, errs |-> e]

Message(r, c, ag, ap) == [role |-> r, content |-> c, agent |-> ag, approved |-> ap]

NoMetadata ==
    [routing_override |-> Null, intent_reasoning |-> Null, blocked_reason |-> Null]

\* Session ids: the ones callers pass, and the ones uuid4() makes up (the
\* n-th call returns a value no other call returns).  NoSession is the
\* falsy id.
NoSession == <<>>
GivenSession(n) == <<"s", n>>
Uuid(n) == <<"uuid", n>>

\* Tenant ids: "default" is the one TenantConfigManager registers, any
\* other id (the UI passes "demo-tenant") gets a config on first use
Tenants == {"default", "demo-tenant"}
Users == {"guest", "u1"}
Workspaces == {"default", "w1"}

\* File paths are sequences of components; "/" first marks an absolute path
Cwd == <<"/", "app">>
PathA == <<"a.pdf">>
PathADot == <<".", "a.pdf">>
PathB == <<"b.pdf">>

RECURSIVE NormParts(_, _)
\* os.path.normpath: "." components go, ".." takes the previous one back
NormParts(done, rest) ==
    IF rest = <<>> THEN done
    ELSE LET c == Head(rest)
         IN IF c = "." THEN NormParts(done, Tail(rest))
            ELSE IF c = ".." /\ Len(done) > 1
            THEN NormParts(SubSeq(done, 1, Len(done) - 1), Tail(rest))
            ELSE IF c = ".." THEN NormParts(done, Tail(rest))
            ELSE NormParts(Append(done, c), Tail(rest))

\* os.path.normpath(os.path.abspath(p))
AbsPath(p) ==
    IF p # <<>> /\ p[1] = "/"
    THEN NormParts(<<"/">>, Tail(p))
    ELSE NormParts(<<"/">>, Tail(Cwd) \o p)

VARIABLES
    st,      \* the shared state (OrchestratorState)
    pc,      \* the node the graph runs next
    steps,   \* node executions of this run so far
    seed,    \* the state invoke handed to the graph
    store,   \* persistence: chat messages and workspace document paths
    log      \* observations: model calls, validations, executions, nodes run

vars == <<st, pc, steps, seed, store, log>>

HandlerNodes == {"rag_agent", "sql_agent", "code_agent", "research_agent", "chat_agent"}

\* _build_graph: the targets registered on classify_intent's conditional edge
ClassifyTargets == HandlerNodes \cup {"graceful_fallback", "fallback_handler"}

\* ------------------------------------------------------------------------
\* invoke: the seeded, normalized state
\* ------------------------------------------------------------------------

\* normalize_state over invoke's input_state
DefaultState(q) ==
    [ tenant_id |-> "default",
      user_id |-> "guest",
      is_guest |-> TRUE,
      session_id |-> NoSession,
      workspace_id |-> "default",
      user_query |-> q,
      intent |-> "unknown",
      intent_confidence |-> 0,
      messages |-> <<>>,
      conversation_turn |-> 0,
      memory_loaded_count |-> 0,
      uploaded_docs |-> <<>>,
      workspace_documents |-> {},
      generated_sql |-> Null,
      sql_validation_result |-> Null,
      code_to_execute |-> Null,
      code_validation |-> Null,
      execution_result |-> Null,
      errors |-> <<>>,
      retry_count |-> 0,
      max_retries |-> DefaultMaxRetries,
      approved |-> FALSE,
      approval_required |-> FALSE,
      execution_status |-> "pending",
      confidence_score |-> 0,
      risk_level |-> Null,
      should_continue |-> FALSE,
      requires_human_input |-> FALSE,
      final_answer |-> NoAnswer,
      metadata |-> NoMetadata ]

\* invoke(query, **kwargs): kwargs pre-seed control fields and artifact slots
ControlSeeds ==
    { [ approved |-> ap, max_retries |-> mr, retry_count |-> rc,
        should_continue |-> sc, approval_required |-> ar,
        generated_sql |-> gs, code_to_execute |-> ce ] :
        ap \in BOOLEAN, mr \in 0..MaxMaxRetries, rc \in 0..MaxSeedRetry,
        sc \in BOOLEAN, ar \in BOOLEAN,
        gs \in SeedArtifacts, ce \in SeedArtifacts }

SeededState(q, up, k) ==
    [ DefaultState(q) EXCEPT
        !.uploaded_docs = up,
        !.approved = k.approved,
        !.max_retries = k.max_retries,
        !.retry_count = k.retry_count,
        !.should_continue = k.should_continue,
        !.approval_required = k.approval_required,
        !.generated_sql = k.generated_sql,
        !.code_to_execute = k.code_to_execute ]

DefaultSeed ==
    [ approved |-> FALSE, max_retries |-> DefaultMaxRetries, retry_count |-> 0,
      should_continue |-> FALSE, approval_required |-> FALSE,
      generated_sql |-> Null, code_to_execute |-> Null ]

\* invoke(query, tenant_id, user_id, session_id, workspace_id=...)
Identities ==
    { [ tenant_id |-> t, user_id |-> u, session_id |-> sid, workspace_id |-> w ] :
        t \in Tenants, u \in Users, sid \in {GivenSession(1), Uuid(1)},
        w \in Workspaces }

DefaultIdentity ==
    [ tenant_id |-> "default", user_id |-> "guest",
      session_id |-> GivenSession(1), workspace_id |-> "default" ]

\* invoke: input_state's identity keys
Identified(s, id) ==
    [ s EXCEPT !.tenant_id = id.tenant_id,
               !.user_id = id.user_id,
               !.is_guest = (id.user_id = "guest"),
               !.session_id = id.session_id,
               !.workspace_id = id.workspace_id ]

EmptyLog ==
    [ gen |-> 0, val |-> 0, executed |-> <<>>, flagged |-> {}, path |-> <<>>,
      classified |-> [intent |-> Null, confidence |-> 0],
      returned |-> 0, upserts |-> 0, appended |-> <<>>, run |-> 1,
      wrote |-> {} ]

\* observation: a run under `tenant` persisted rows of `kind` under `key`
Wrote(tenant, kind, key) == [tenant |-> tenant, kind |-> kind, key |-> key]

\* sqlite_store: a chat_messages row and a user_documents row
ChatRow(u, w, sid, role, content) ==
    [ user_id |-> u, workspace_id |-> w, session_id |-> sid,
      role |-> role, content |-> content ]

\* doc_id is sha256(user|workspace|absolute path), here the triple itself
DocId(u, w, abs_p) == <<u, w, abs_p>>

DocRow(u, w, abs_p) ==
    [ user_id |-> u, workspace_id |-> w, doc_id |-> DocId(u, w, abs_p),
      file_path |-> abs_p ]

\* Persisted history (role, content) and registered paths found by
\* load-context, and the paths a caller uploads
Histories == { <<>>, << <<"user", UserContent(QWhatIs)>> >> }
DocSets == { {}, {AbsPath(PathA)} }
Uploads ==
    { <<>>, <<PathA>>, <<PathADot>>, <<PathB>>,
      \* one file named twice, as written and under two spellings
      <<PathA, PathA>>, <<PathA, PathADot>> }

\* what persistence holds when the run starts: SQLite rows under the run's
\* own keys, and no checkpoint (MemorySaver starts empty)
InitialStore(id, h, d) ==
    [ chat |-> [i \in 1..Len(h) |->
                  ChatRow(id.user_id, id.workspace_id, id.session_id,
                          h[i][1], h[i][2])],
      docs |-> {DocRow(id.user_id, id.workspace_id, p) : p \in d},
      checkpoints |-> {} ]

Init ==
    /\ \E q \in Queries, up \in Uploads, k \in ControlSeeds,
          h \in Histories, d \in DocSets, id \in Identities :
          \* the routing inputs vary, or the control inputs, or the identity
          /\ \/ k = DefaultSeed /\ id = DefaultIdentity
             \/ q = QMid /\ up = <<>> /\ h = <<>> /\ d = {} /\ id = DefaultIdentity
             \/ q = QLong /\ up = <<>> /\ h = <<>> /\ d = {} /\ k = DefaultSeed
          /\ k.generated_sql = Null \/ k.code_to_execute = Null
          /\ st = Identified(SeededState(q, up, k), id)
          /\ store = InitialStore(id, h, d)
    /\ seed = st
    /\ pc = "load_persistent_context"
    /\ steps = 0
    /\ log = EmptyLog

\* ------------------------------------------------------------------------
\* Context load / save
\* ------------------------------------------------------------------------

\* a filter that compares the supplied paths as they were written
NewPathsAsWritten(incoming, existing) ==
    SelectSeq(incoming, LAMBDA p : p \notin existing)

\* _load_persistent_context_node: the supplied paths whose absolute path is
\* not among existing_paths (which the loop does not extend)
NewPaths(incoming, existing) ==
    SelectSeq(incoming, LAMBDA p : AbsPath(p) \notin existing)

SeqRange(s) == {s[i] : i \in 1..Len(s)}

\* chat_messages rows of one (user, workspace, session), oldest first
SelectRows(rows, u, w, sid) ==
    SelectSeq(rows, LAMBDA r : r.user_id = u /\ r.workspace_id = w
                                /\ r.session_id = sid)

\* sqlite_store.load_chat_messages: the newest `limit` rows, oldest first
load_chat_messages(db, u, w, sid, limit) ==
    LET rows == SelectRows(db.chat, u, w, sid)
        n == Len(rows)
    IN  IF n > limit THEN SubSeq(rows, n - limit + 1, n) ELSE rows

\* sqlite_store.list_workspace_documents
list_workspace_documents(db, u, w) ==
    {d \in db.docs : d.user_id = u /\ d.workspace_id = w}

\* sqlite_store.upsert_document: ON CONFLICT(user_id, workspace_id, doc_id)
upsert_document(docs, u, w, doc_id, file_path) ==
    {d \in docs : ~(d.user_id = u /\ d.workspace_id = w /\ d.doc_id = doc_id)}
    \cup {[user_id |-> u, workspace_id |-> w, doc_id |-> doc_id,
            file_path |-> file_path]}

RECURSIVE UpsertAll(_, _, _, _)
\* the upsert_document calls of the filter loop, in order
UpsertAll(docs, u, w, paths) ==
    IF paths = <<>> THEN docs
    ELSE LET abs_p == AbsPath(Head(paths))
         IN UpsertAll(upsert_document(docs, u, w, DocId(u, w, abs_p), abs_p),
                      u, w, Tail(paths))

\* python truthiness of a message content
EmptyContent(c) == c.kind = "query" /\ c.text = <<>>

\* sqlite_store.append_chat_messages: one row per message with a content
InsertRows(u, w, sid, msgs) ==
    LET kept == SelectSeq(msgs, LAMBDA m : ~EmptyContent(m.content))
    IN [i \in 1..Len(kept) |-> ChatRow(u, w, sid, kept[i].role, kept[i].content)]

append_chat_messages(db, u, w, sid, msgs) ==
    [db EXCEPT !.chat = @ \o InsertRows(u, w, sid, msgs)]

\* a guard that replaces the session id whether or not one was given
FreshSessionId(s, uuid) == uuid

\* _load_persistent_context_node: if not state.get("session_id"), a new uuid
GuardedSessionId(s, uuid) ==
    IF s.session_id = NoSession THEN uuid ELSE s.session_id

\* _load_persistent_context_node.  uuid: what uuid4() would return
LoadPersistentContext(s, db, uuid) ==
    LET ws_id == IF s.workspace_id \in {Null, ""} THEN "default" ELSE s.workspace_id
        sid == GuardedSessionId(s, uuid)
        history == load_chat_messages(db, s.user_id, ws_id, sid, HistoryLimit)
        msgs == s.messages \o
                [i \in 1..Len(history) |->
                    Message(history[i].role, history[i].content, "persisted", FALSE)]
        docs == list_workspace_documents(db, s.user_id, ws_id)
        existing_paths == {AbsPath(d.file_path) : d \in docs}
        truly_new_paths == NewPaths(s.uploaded_docs, existing_paths)
        db1 == [db EXCEPT !.docs = UpsertAll(@, s.user_id, ws_id, truly_new_paths)]
    IN [ st |-> [s EXCEPT !.workspace_id = ws_id,
                          !.session_id = sid,
                          !.messages = msgs,
                          !.memory_loaded_count = Len(msgs),
                          !.workspace_documents =
                              list_workspace_documents(db1, s.user_id, ws_id),
                          !.uploaded_docs = truly_new_paths],
         store |-> db1 ]

\* _save_persistent_context_node
SavePersistentContext(s, db) ==
    LET start == s.memory_loaded_count
        new_msgs == SubSeq(s.messages, start + 1, Len(s.messages))
    IN [ st |-> [s EXCEPT !.memory_loaded_count = Len(s.messages)],
         store |-> append_chat_messages(db, s.user_id, s.workspace_id,
                                        s.session_id, new_msgs) ]

\* ------------------------------------------------------------------------
\* Intent classification and the routing decision
\* ------------------------------------------------------------------------

\* Labels the classifier backend may answer with ("other" is outside the enum)
Labels == Intents \cup {"other"}

\* What the backend does during one classify call.  kind: the prompt cannot
\* be formatted, the call raises, the response has no text, the text is not
\* JSON, the JSON is not an object (a list, a number, null), or it is an
\* object; intent and confidence are the object's members.  A confidence is
\* a number (hundredths) or not one (a word, null, or missing, which float()
\* rejects or the 0.5 default replaces).
ResponseKinds == {"format_error", "invoke_error", "no_text", "malformed_json",
                  "not_object", "object"}
Num(v) == [num |-> TRUE, val |-> v]
NotNum == [num |-> FALSE, val |-> 0]
Response(kind, intent, confidence) ==
    [kind |-> kind, intent |-> intent, confidence |-> confidence]

\* classify: the default of parsed.get("confidence", 0.5), in hundredths
DefaultConfidence == 50

\* classify: float(parsed.get("confidence", 0.5)), 0.5 on ValueError/TypeError
CoerceConfidence(c) == IF c.num THEN c.val ELSE DefaultConfidence

\* classify, one failure path: intent unknown, confidence 0, the reason in
\* metadata, and the message in errors when the path appends one
ClassifyFailed(s, error, reason) ==
    LET s1 == IF error = Null THEN s ELSE [s EXCEPT !.errors = Append(@, error)]
    IN [s1 EXCEPT !.intent = "unknown", !.intent_confidence = 0,
                  !.metadata.intent_reasoning = reason]

\* an invocation failure that is recorded in metadata only
InvocationFailedUnrecorded(s) ==
    ClassifyFailed(s, Null, "LLM invocation failed")

\* classify: except block around self.llm_router.invoke
InvocationFailed(s) ==
    ClassifyFailed(s, "LLM invocation error", "LLM invocation failed")

\* IntentRouter.classify.  raised: an exception leaves the method
classify(s, r) ==
    IF s.user_query = <<>>
    THEN [raised |-> FALSE, st |-> ClassifyFailed(s, Null, "Empty query")]
    ELSE IF r.kind = "format_error"
    THEN [raised |-> FALSE,
          st |-> ClassifyFailed(s, "Prompt formatting error", "Prompt formatting failed")]
    ELSE IF r.kind = "invoke_error"
    THEN [raised |-> FALSE, st |-> InvocationFailed(s)]
    ELSE IF r.kind = "no_text"
    THEN [raised |-> FALSE,
          st |-> ClassifyFailed(s, Null, "Failed to parse intent response")]
    ELSE IF r.kind = "malformed_json"
    THEN [raised |-> FALSE,
          st |-> ClassifyFailed(s, Null, "Invalid JSON from intent classifier")]
    ELSE IF r.kind = "not_object"
    THEN \* parsed.get on a list, a number or None: AttributeError
         [raised |-> TRUE, st |-> s]
    ELSE LET intent == IF r.intent \in {Null, ""} THEN "unknown" ELSE r.intent
             confidence == CoerceConfidence(r.confidence)
         IN  IF intent \notin Intents
             THEN [raised |-> FALSE,
                   st |-> [s EXCEPT !.intent = "unknown", !.intent_confidence = 0,
                                    !.metadata.intent_reasoning = "reasoning"]]
             ELSE [raised |-> FALSE,
                   st |-> [s EXCEPT !.intent = intent,
                                    !.intent_confidence = confidence,
                                    !.metadata.intent_reasoning = "reasoning"]]

\* IntentRouter.classify for a backend that raises or answers with an
\* object holding a label and a confidence in range
Classify(s, invokeOk, label, conf) ==
    classify(s, Response(IF invokeOk THEN "object" ELSE "invoke_error",
                         label, Num(conf))).st

\* _classify_intent_node: the user message, if it is not the last one
WithUserMessage(s) ==
    LET current_query == UserContent(s.user_query)
        msgs == s.messages
        should_append ==
            ~ ( msgs # <<>>
                /\ msgs[Len(msgs)].role = "user"
                /\ msgs[Len(msgs)].content = current_query )
    IN  IF should_append
        THEN [s EXCEPT !.conversation_turn = @ + 1,
                       !.messages = Append(@, Message("user", current_query, Null, FALSE))]
        ELSE s

\* _classify_intent_node for any backend behaviour: the except block turns
\* an exception of classify into an error entry
classify_intent_node(s, r) ==
    LET s1 == WithUserMessage(s)
        c == classify(s1, r)
    IN  IF c.raised
        THEN [c.st EXCEPT !.errors = Append(@, "Intent classification error"),
                          !.intent = "unknown", !.intent_confidence = 0]
        ELSE c.st

\* _classify_intent_node
ClassifyIntentNode(s, invokeOk, label, conf) ==
    Classify(WithUserMessage(s), invokeOk, label, conf)

Max(a, b) == IF a >= b THEN a ELSE b

\* the keyword test without query.lower()
HasResearchKeywordCaseSensitive(query) ==
    \E keyword \in research_keywords : Contains(query, keyword)

\* any(keyword in query_lower for keyword in research_keywords)
HasResearchKeyword(query) ==
    \E keyword \in research_keywords : Contains(Lower(query), keyword)

\* the trigger test without query.lower()
IsRagRequestCaseSensitive(query) ==
    \E t \in rag_triggers : Contains(query, t)

\* any(t in query_lower for t in rag_triggers)
IsRagRequest(query) ==
    \E t \in rag_triggers : Contains(Lower(query), t)

\* _route_after_classification: the keyword override (first if)
ResearchOverride(s) ==
    IF HasResearchKeyword(s.user_query)
    THEN [s EXCEPT !.intent = "research",
                   !.intent_confidence = Max(s.intent_confidence, ResearchBoost),
                   !.metadata.routing_override = "keyword_based_research"]
    ELSE s

\* a dispatch that sends the chat label to the diagnostic fallback
DispatchChatToFallback(intent) ==
    IF intent = "rag" THEN "rag_agent"
    ELSE IF intent = "sql" THEN "sql_agent"
    ELSE IF intent = "code" THEN "code_agent"
    ELSE IF intent = "research" THEN "research_agent"
    ELSE "fallback_handler"

\* _route_after_classification: "Route to requested agent" (the last ifs)
Dispatch(intent) ==
    IF intent = "rag" THEN "rag_agent"
    ELSE IF intent = "sql" THEN "sql_agent"
    ELSE IF intent = "code" THEN "code_agent"
    ELSE IF intent = "research" THEN "research_agent"
    ELSE IF intent = "chat" THEN "chat_agent"
    ELSE "fallback_handler"

\* _route_after_classification: the decision and the state it leaves
RouteAfterClassification(s0) ==
    LET s == ResearchOverride(s0)
        intent == s.intent
        confidence == s.intent_confidence
        query == s.user_query
        has_docs == s.uploaded_docs # <<>> \/ s.workspace_documents # {}
    IN  IF intent = "unknown" \/ confidence < MinConfidence
        THEN IF has_docs /\ IsRagRequest(query) /\ Len(query) > TriggerMinLen
             THEN [next |-> "rag_agent",
                   st |-> [s EXCEPT !.intent = "rag",
                                    !.intent_confidence = RagTriggerConfidence,
                                    !.metadata.routing_override = "auto_rag_due_to_docs"]]
             ELSE IF has_docs /\ Len(query) > DocsMinLen
             THEN [next |-> "rag_agent",
                   st |-> [s EXCEPT !.intent = "rag",
                                    !.intent_confidence = RagDocsConfidence]]
             ELSE [next |-> "fallback_handler",
                   st |-> [s EXCEPT !.intent = "chat",
                                    !.intent_confidence = ChatFallbackConfidence]]
        ELSE [next |-> Dispatch(intent), st |-> s]

\* ------------------------------------------------------------------------
\* Tenant policy (config/tenant_config.py)
\* ------------------------------------------------------------------------

\* TenantConfig.max_query_length
MaxQueryLength == 1000

\* TenantConfigManager.get_config: "default" is registered as PRO with sql
\* and code enabled; any other tenant gets TenantConfig(tenant_id), FREE
get_config(tenant_id) ==
    IF tenant_id = "default"
    THEN [ tier |-> "pro",
           max_query_length |-> MaxQueryLength,
           allowed_agents |-> {"chat", "rag", "research", "sql", "code"},
           enable_code_execution |-> TRUE,
           enable_sql_execution |-> TRUE ]
    ELSE [ tier |-> "free",
           max_query_length |-> MaxQueryLength,
           allowed_agents |-> {"chat", "rag"},
           enable_code_execution |-> FALSE,
           enable_sql_execution |-> FALSE ]

\* TenantConfigManager.is_agent_allowed
is_agent_allowed(tenant_id, agent_name) ==
    agent_name \in get_config(tenant_id).allowed_agents

\* TenantConfigManager.validate_request: (is_valid, error_message)
validate_request(tenant_id, query, intent) ==
    LET config == get_config(tenant_id)
    IN  IF Len(query) > config.max_query_length
        THEN [ok |-> FALSE, error |-> "query_too_long"]
        ELSE IF ~is_agent_allowed(tenant_id, intent)
        THEN [ok |-> FALSE, error |-> "agent_not_available_for_tier"]
        ELSE IF intent = "code" /\ ~config.enable_code_execution
        THEN [ok |-> FALSE, error |-> "code_execution_not_enabled"]
        ELSE IF intent = "sql" /\ ~config.enable_sql_execution
        THEN [ok |-> FALSE, error |-> "sql_execution_not_enabled"]
        ELSE [ok |-> TRUE, error |-> Null]

\* ------------------------------------------------------------------------
\* Handlers
\* ------------------------------------------------------------------------

\* an except branch that loses the error message
SqlOnExceptionUnrecorded(s, l, retry_count, error_msg) ==
    [ st |-> IF retry_count < SqlAgentMaxRetries
             THEN [s EXCEPT !.retry_count = retry_count + 1,
                            !.execution_status = "failed",
                            !.should_continue = TRUE]
             ELSE [s EXCEPT !.execution_status = "failed",
                            !.final_answer = Answer("sql_failed", Null, s.errors)],
      log |-> l ]

\* SQLAgent.execute, except branch: the retry policy
SqlOnException(s, l, retry_count, error_msg) ==
    LET s1 == [s EXCEPT !.errors = Append(@, error_msg)]
    IN [ st |-> IF retry_count < SqlAgentMaxRetries
                THEN [s1 EXCEPT !.retry_count = retry_count + 1,
                                !.execution_status = "failed",
                                !.should_continue = TRUE]
                ELSE [s1 EXCEPT !.execution_status = "failed",
                                !.final_answer = Answer("sql_failed", Null, s1.errors)],
         log |-> l ]

\* a resume test that also insists on a pending approval request
SqlResumingIfRequested(s) ==
    s.approved /\ s.approval_required /\ Truthy(s.generated_sql)

\* SQLAgent.execute: if state.get("approved") and state.get("generated_sql")
SqlResuming(s) == s.approved /\ Truthy(s.generated_sql)

\* SQLAgent.execute.  genOk: the generation call returns; art: what it returns
SqlAgentExecute(s, l, genOk, art) ==
    LET retry_count == s.retry_count
    IN  IF SqlResuming(s)
        THEN LET sql == s.generated_sql
                 ans == Answer("sql_executed_approved", sql, <<>>)
             IN [ st |-> [s EXCEPT !.execution_result = sql,
                                   !.execution_status = "completed",
                                   !.final_answer = ans,
                                   !.confidence_score = 95,
                                   !.messages = Append(@, Message("assistant", ans, "sql", TRUE))],
                  log |-> [l EXCEPT !.executed = Append(@, sql)] ]
        ELSE IF ~genOk
        THEN SqlOnException(s, [l EXCEPT !.gen = @ + 1], retry_count, "sql_generation_error")
        ELSE LET sql == art
                 s1 == [s EXCEPT !.generated_sql = sql,
                                 !.sql_validation_result = RiskLevel(sql)]
                 l1 == [l EXCEPT !.gen = @ + 1, !.val = @ + 1]
                 ans == Answer("sql_executed", sql, <<>>)
             IN  IF RequiresApproval(sql)
                 THEN [ st |-> [s1 EXCEPT !.approval_required = TRUE,
                                          !.risk_level = RiskLevel(sql),
                                          !.execution_status = "requires_approval"],
                        log |-> [l1 EXCEPT !.flagged = @ \cup {sql}] ]
                 ELSE IF s1.approval_required /\ ~s1.approved
                 THEN [ st |-> [s1 EXCEPT !.execution_status = "pending"], log |-> l1 ]
                 ELSE [ st |-> [s1 EXCEPT !.execution_result = sql,
                                          !.execution_status = "completed",
                                          !.final_answer = ans,
                                          !.confidence_score = 90,
                                          !.messages = Append(@, Message("assistant", ans, "sql", FALSE))],
                        log |-> [l1 EXCEPT !.executed = Append(@, sql)] ]

\* CodeAgent.execute, except branch: the retry policy
CodeOnException(s, l, retry_count, error_msg) ==
    LET s1 == [s EXCEPT !.errors = Append(@, error_msg)]
    IN [ st |-> IF retry_count < CodeAgentMaxRetries
                THEN [s1 EXCEPT !.retry_count = retry_count + 1,
                                !.execution_status = "failed",
                                !.should_continue = TRUE]
                ELSE [s1 EXCEPT !.execution_status = "failed",
                                !.final_answer = Answer("code_failed", Null, s1.errors)],
         log |-> l ]

\* CodeAgent.execute: if state.get("approved") and state.get("code_to_execute")
CodeResuming(s) == s.approved /\ Truthy(s.code_to_execute)

\* CodeAgent.execute.  genOk, art as above; execOk: execute_safe reports success
CodeAgentExecute(s, l, genOk, art, execOk) ==
    LET retry_count == s.retry_count
    IN  IF CodeResuming(s)
        THEN LET code == s.code_to_execute
                 ans == Answer("code_executed_approved", code, <<>>)
                 s1 == [s EXCEPT !.execution_status = "executing"]
                 l1 == [l EXCEPT !.executed = Append(@, code)]
             IN  IF execOk
                 THEN [ st |-> [s1 EXCEPT !.execution_result = code,
                                          !.execution_status = "completed",
                                          !.final_answer = ans,
                                          !.confidence_score = 90,
                                          !.messages = Append(@, Message("assistant", ans, "code", TRUE))],
                        log |-> l1 ]
                 ELSE CodeOnException(s1, l1, retry_count, "code_execution_error")
        ELSE IF ~genOk
        THEN CodeOnException(s, [l EXCEPT !.gen = @ + 1], retry_count, "code_generation_error")
        ELSE LET code == art
                 s1 == [s EXCEPT !.code_to_execute = code,
                                 !.code_validation = RiskLevel(code)]
                 l1 == [l EXCEPT !.gen = @ + 1, !.val = @ + 1]
                 ans == Answer("code_executed", code, <<>>)
             IN  IF RequiresApproval(code)
                 THEN [ st |-> [s1 EXCEPT !.approval_required = TRUE,
                                          !.risk_level = RiskLevel(code),
                                          !.execution_status = "requires_approval"],
                        log |-> [l1 EXCEPT !.flagged = @ \cup {code}] ]
                 ELSE IF s1.approval_required /\ ~s1.approved
                 THEN [ st |-> [s1 EXCEPT !.execution_status = "pending"], log |-> l1 ]
                 ELSE LET s2 == [s1 EXCEPT !.execution_status = "executing"]
                          l2 == [l1 EXCEPT !.executed = Append(@, code)]
                      IN  IF execOk
                          THEN [ st |-> [s2 EXCEPT !.execution_result = code,
                                                   !.execution_status = "completed",
                                                   !.final_answer = ans,
                                                   !.confidence_score = 85,
                                                   !.messages = Append(@, Message("assistant", ans, "code", FALSE))],
                                 log |-> l2 ]
                          ELSE CodeOnException(s2, l2, retry_count, "code_execution_error")

\* RAGAgent.execute.  ok: generate_answer returns
RagAgentExecute(s, ok) ==
    IF ok
    THEN LET ans == Answer("rag_answer", Null, <<>>)
         IN [s EXCEPT !.final_answer = ans,
                               !.execution_status = "completed",
                               !.confidence_score = s.intent_confidence,
                               !.messages = Append(@, Message("assistant", ans, "rag", FALSE))]
    ELSE [s EXCEPT !.errors = Append(@, "RAG execution error"),
                            !.execution_status = "failed",
                            !.final_answer = Answer("rag_error", Null, <<>>)]

\* ResearchAgent.execute.  ok: search and synthesis return
ResearchAgentExecute(s, ok) ==
    IF ok
    THEN LET ans == Answer("research_answer", Null, <<>>)
         IN [s EXCEPT !.final_answer = ans,
                               !.execution_status = "completed",
                               !.confidence_score = 75,
                               !.messages = Append(@, Message("assistant", ans, "research", FALSE))]
    ELSE [s EXCEPT !.errors = Append(@, "Research execution error"),
                            !.execution_status = "failed",
                            !.final_answer = Answer("research_error", Null, <<>>)]

\* ChatAgent.execute.  ok: the model call returns
ChatAgentExecute(s, ok) ==
    IF ok
    THEN LET ans == Answer("chat_answer", Null, <<>>)
         IN [s EXCEPT !.final_answer = ans,
                               !.execution_status = "completed",
                               !.confidence_score = 80,
                               !.messages = Append(@, Message("assistant", ans, "chat", FALSE))]
    ELSE [s EXCEPT !.errors = Append(@, "Chat execution error"),
                            !.execution_status = "failed",
                            !.final_answer = Answer("chat_error", Null, <<>>)]

\* ------------------------------------------------------------------------
\* Approval gate, retry handler and the edges out of them
\* ------------------------------------------------------------------------

\* a gate that leaves the status as the handler set it
ApprovalGateNodeStatusKept(s) ==
    IF s.approved
    THEN [s EXCEPT !.should_continue = TRUE]
    ELSE [s EXCEPT !.requires_human_input = TRUE, !.should_continue = FALSE]

\* _approval_gate_node
ApprovalGateNode(s) ==
    IF s.approved
    THEN [s EXCEPT !.execution_status = "approved", !.should_continue = TRUE]
    ELSE [s EXCEPT !.execution_status = "requires_approval",
                   !.requires_human_input = TRUE,
                   !.should_continue = FALSE]

\* an approval edge that re-enters the handler of any intent
RouteAfterApprovalAnyIntent(s) ==
    IF s.approved /\ s.intent \in {"rag", "sql", "code", "research", "chat"}
    THEN Dispatch(s.intent)
    ELSE "save_persistent_context"

\* _route_after_approval
RouteAfterApproval(s) ==
    IF s.approved /\ s.intent = "sql" THEN "sql_agent"
    ELSE IF s.approved /\ s.intent = "code" THEN "code_agent"
    ELSE "save_persistent_context"

\* _retry_handler_node
RetryHandlerNode(s) ==
    IF s.retry_count < s.max_retries
    THEN [s EXCEPT !.should_continue = TRUE]
    ELSE [s EXCEPT !.should_continue = FALSE, !.execution_status = "failed"]

\* a retry edge that sends every intent back to its handler
RouteAfterRetryByDispatch(s) ==
    IF s.should_continue /\ s.intent \in {"rag", "sql", "code", "research", "chat"}
    THEN Dispatch(s.intent)
    ELSE "save_persistent_context"

\* _route_after_retry
RouteAfterRetry(s) ==
    IF s.should_continue /\ s.intent = "sql" THEN "sql_agent"
    ELSE IF s.should_continue /\ s.intent = "code" THEN "code_agent"
    ELSE "save_persistent_context"

\* a post-handler edge that sends every state asking for approval to the gate
RouteAfterAgentGateIfRequired(s) ==
    IF s.approval_required THEN "approval_gate"
    ELSE IF s.should_continue /\ s.retry_count < s.max_retries THEN "retry_handler"
    ELSE "save_persistent_context"

\* a post-handler edge that looks at the retry condition first
RouteAfterAgentRetryFirst(s) ==
    IF s.should_continue /\ s.retry_count < s.max_retries THEN "retry_handler"
    ELSE IF s.approval_required /\ ~s.approved THEN "approval_gate"
    ELSE "save_persistent_context"

\* _route_after_agent
RouteAfterAgent(s) ==
    IF s.approval_required /\ ~s.approved THEN "approval_gate"
    ELSE IF s.should_continue /\ s.retry_count < s.max_retries THEN "retry_handler"
    ELSE "save_persistent_context"

\* _graceful_fallback_node.  It is registered as a target of classify_intent
\* but _route_after_classification has no return that names it, so the
\* graph never runs it.
GracefulFallbackNode(s) ==
    LET ans == Answer("blocked", s.metadata.blocked_reason, <<>>)
    IN [s EXCEPT !.final_answer = ans,
                 !.execution_status = "completed",
                 !.messages = Append(@, Message("assistant", ans, "graceful_fallback", FALSE))]

\* ------------------------------------------------------------------------
\* The graph: one action per node (with its outgoing edge)
\* ------------------------------------------------------------------------

Ran(node) == [log EXCEPT !.path = Append(@, node)]

\* The runtime folds the state a node returns into the channels: messages is
\* declared with operator.add, so the returned list is added to the value
\* the channel holds (chan); every other key is overwritten.
Update(chan, ret) == [ret EXCEPT !.messages = chan \o ret.messages]

\* A node that appends to state["messages"] in place has appended to the
\* channel's own list, which is what the returned list is then added to.
UpdateInPlace(ret) == Update(ret.messages, ret)

\* Storage calls that can raise (sqlite3 errors), "none" when all succeed
LoadFaults == {"none", "load_chat_messages", "list_workspace_documents", "upsert_document"}
SaveFaults == {"none", "append_chat_messages"}

\* entry point load_persistent_context -> classify_intent
LoadContext ==
    /\ pc = "load_persistent_context"
    /\ steps < MaxSteps
    /\ \E fault \in LoadFaults :
          LET \* what uuid4() returns here is no value invoke generated
              r == LoadPersistentContext(st, store, Uuid(0 - log.run))
              \* an empty list is replaced by a new one before the appends
              chan == IF st.messages = <<>> THEN <<>> ELSE r.st.messages
              raises == \/ fault \in {"load_chat_messages", "list_workspace_documents"}
                        \/ fault = "upsert_document" /\ r.st.uploaded_docs # <<>>
          IN  IF raises
              THEN \* neither the node nor invoke catches it
                   /\ pc' = "raised"
                   /\ log' = Ran("load_persistent_context")
                   /\ UNCHANGED <<st, store>>
              ELSE /\ st' = Update(chan, r.st)
                   /\ store' = r.store
                   /\ pc' = "classify_intent"
                   /\ log' = [Ran("load_persistent_context") EXCEPT
                                 !.returned = Len(r.st.messages),
                                 !.upserts = Len(r.st.uploaded_docs),
                                 !.wrote = IF r.st.uploaded_docs = <<>> THEN @
                                           ELSE @ \cup {Wrote(st.tenant_id, "doc",
                                                    <<r.st.user_id, r.st.workspace_id>>)}]
    /\ steps' = steps + 1
    /\ UNCHANGED seed

\* node classify_intent
ClassifyIntent ==
    /\ pc = "classify_intent"
    /\ steps < MaxSteps
    /\ \E invokeOk \in BOOLEAN, label \in Labels, conf \in Confidences :
          st' = UpdateInPlace(ClassifyIntentNode(st, invokeOk, label, conf))
    /\ pc' = "route_after_classification"
    /\ steps' = steps + 1
    /\ log' = [Ran("classify_intent") EXCEPT
                  !.classified = [intent |-> st'.intent,
                                  confidence |-> st'.intent_confidence],
                  !.returned = Len(st'.messages) \div 2]
    /\ UNCHANGED <<seed, store>>

\* conditional edge classify_intent -> _route_after_classification
RouteClassified ==
    /\ pc = "route_after_classification"
    /\ LET r == RouteAfterClassification(st)
       IN /\ st' = r.st
          /\ pc' = r.next
    /\ UNCHANGED <<steps, seed, store, log>>

\* node sql_agent and its edge _route_after_agent
SqlAgent ==
    /\ pc = "sql_agent"
    /\ steps < MaxSteps
    /\ \E genOk \in BOOLEAN, art \in GenArtifacts :
          LET r == SqlAgentExecute(st, Ran("sql_agent"), genOk, art)
          IN /\ st' = UpdateInPlace(r.st)
             /\ log' = [r.log EXCEPT !.returned = Len(r.st.messages)]
    /\ pc' = RouteAfterAgent(st')
    /\ steps' = steps + 1
    /\ UNCHANGED <<seed, store>>

\* node code_agent and its edge _route_after_agent
CodeAgent ==
    /\ pc = "code_agent"
    /\ steps < MaxSteps
    /\ \E genOk \in BOOLEAN, art \in GenArtifacts, execOk \in BOOLEAN :
          LET r == CodeAgentExecute(st, Ran("code_agent"), genOk, art, execOk)
          IN /\ st' = UpdateInPlace(r.st)
             /\ log' = [r.log EXCEPT !.returned = Len(r.st.messages)]
    /\ pc' = RouteAfterAgent(st')
    /\ steps' = steps + 1
    /\ UNCHANGED <<seed, store>>

\* node rag_agent and its edge _route_after_agent
RagAgent ==
    /\ pc = "rag_agent"
    /\ steps < MaxSteps
    /\ \E ok \in BOOLEAN :
          LET r == RagAgentExecute(st, ok)
          IN /\ st' = UpdateInPlace(r)
             /\ log' = [Ran("rag_agent") EXCEPT !.returned = Len(r.messages)]
    /\ pc' = RouteAfterAgent(st')
    /\ steps' = steps + 1
    /\ UNCHANGED <<seed, store>>

\* node research_agent and its edge _route_after_agent
ResearchAgent ==
    /\ pc = "research_agent"
    /\ steps < MaxSteps
    /\ \E ok \in BOOLEAN :
          LET r == ResearchAgentExecute(st, ok)
          IN /\ st' = UpdateInPlace(r)
             /\ log' = [Ran("research_agent") EXCEPT !.returned = Len(r.messages)]
    /\ pc' = RouteAfterAgent(st')
    /\ steps' = steps + 1
    /\ UNCHANGED <<seed, store>>

\* node chat_agent and its edge _route_after_agent
ChatAgent ==
    /\ pc = "chat_agent"
    /\ steps < MaxSteps
    /\ \E ok \in BOOLEAN :
          LET r == ChatAgentExecute(st, ok)
          IN /\ st' = UpdateInPlace(r)
             /\ log' = [Ran("chat_agent") EXCEPT !.returned = Len(r.messages)]
    /\ pc' = RouteAfterAgent(st')
    /\ steps' = steps + 1
    /\ UNCHANGED <<seed, store>>

\* node fallback_handler (_fallback_node) -> save_persistent_context
FallbackHandler ==
    /\ pc = "fallback_handler"
    /\ steps < MaxSteps
    /\ \E ok \in BOOLEAN :
          LET r == ChatAgentExecute(st, ok)
          IN /\ st' = UpdateInPlace(r)
             /\ log' = [Ran("fallback_handler") EXCEPT !.returned = Len(r.messages)]
    /\ pc' = "save_persistent_context"
    /\ steps' = steps + 1
    /\ UNCHANGED <<seed, store>>

\* node approval_gate and its edge _route_after_approval
ApprovalGate ==
    /\ pc = "approval_gate"
    /\ steps < MaxSteps
    /\ st' = UpdateInPlace(ApprovalGateNode(st))
    /\ pc' = RouteAfterApproval(st')
    /\ steps' = steps + 1
    /\ log' = [Ran("approval_gate") EXCEPT !.returned = Len(st.messages)]
    /\ UNCHANGED <<seed, store>>

\* node retry_handler and its edge _route_after_retry
RetryHandler ==
    /\ pc = "retry_handler"
    /\ steps < MaxSteps
    /\ st' = UpdateInPlace(RetryHandlerNode(st))
    /\ pc' = RouteAfterRetry(st')
    /\ steps' = steps + 1
    /\ log' = [Ran("retry_handler") EXCEPT !.returned = Len(st.messages)]
    /\ UNCHANGED <<seed, store>>

\* node save_persistent_context -> END
SaveContext ==
    /\ pc = "save_persistent_context"
    /\ steps < MaxSteps
    /\ \E fault \in SaveFaults :
          LET r == SavePersistentContext(st, store)
              new_msgs == SubSeq(st.messages, st.memory_loaded_count + 1,
                                 Len(st.messages))
              \* append_chat_messages returns before any query on an empty list
              raises == fault = "append_chat_messages" /\ new_msgs # <<>>
          IN  IF raises
              THEN /\ pc' = "raised"
                   /\ log' = Ran("save_persistent_context")
                   /\ UNCHANGED <<st, store>>
              ELSE /\ st' = UpdateInPlace(r.st)
                   /\ store' = r.store
                   /\ pc' = "END"
                   /\ log' = [Ran("save_persistent_context") EXCEPT
                                 !.returned = Len(r.st.messages),
                                 !.appended = new_msgs,
                                 !.wrote = IF r.store.chat = store.chat THEN @
                                           ELSE @ \cup {Wrote(st.tenant_id, "chat",
                                                    <<st.user_id, st.workspace_id,
                                                      st.session_id>>)}]
    /\ steps' = steps + 1
    /\ UNCHANGED seed

\* app.invoke gives up on a run that used all its steps without reaching END
StepLimit ==
    /\ pc \notin {"END", "step_limit_error", "raised", "route_after_classification"}
    /\ steps = MaxSteps
    /\ pc' = "step_limit_error"
    /\ UNCHANGED <<st, steps, seed, store, log>>

Next ==
    \/ LoadContext
    \/ ClassifyIntent
    \/ RouteClassified
    \/ SqlAgent
    \/ CodeAgent
    \/ RagAgent
    \/ ResearchAgent
    \/ ChatAgent
    \/ FallbackHandler
    \/ ApprovalGate
    \/ RetryHandler
    \/ SaveContext
    \/ StepLimit

Spec == Init /\ [][Next]_vars

\* ------------------------------------------------------------------------
\* A session: invoke called again on what the previous runs left behind
\* ------------------------------------------------------------------------

\* the inputs of the runs of a session: the empty query (classified unknown
\* without a model call, answered by the diagnostic fallback)
SessionQuery == QEmpty
SessionUploads == { <<>>, <<PathA>>, <<PathADot>> }
SessionIdentities ==
    { id \in Identities :
        id.session_id = GivenSession(1) /\ id.workspace_id = "default" }

InitSession ==
    /\ \E up \in SessionUploads, id \in SessionIdentities :
          /\ st = Identified(SeededState(SessionQuery, up, DefaultSeed), id)
          /\ store = InitialStore(id, <<>>, {})
    /\ seed = st
    /\ pc = "load_persistent_context"
    /\ steps = 0
    /\ log = EmptyLog

\* MemorySaver: the checkpoint of a thread holds the channel values of its
\* last step
Checkpoint(thread, s) ==
    [thread |-> thread, tenant_id |-> s.tenant_id, messages |-> s.messages]

\* the messages channel of a thread as checkpointed (empty without checkpoint)
Checkpointed(cps, thread) ==
    IF \E c \in cps : c.thread = thread
    THEN (CHOOSE c \in cps : c.thread = thread).messages
    ELSE <<>>

\* invoke, called after a run is over.  restart: the process was restarted
\* in between, so the orchestrator and its MemorySaver are new.  The thread
\* id is the session id; the input is written onto the thread's checkpoint.
Invoke ==
    /\ pc \in {"END", "raised", "step_limit_error"}
    /\ log.run < MaxRuns
    /\ \E up \in SessionUploads, id \in SessionIdentities, restart \in BOOLEAN :
          LET saved == IF restart THEN {}
                       ELSE {c \in store.checkpoints : c.thread # seed.session_id}
                            \cup {Checkpoint(seed.session_id, st)}
              input == Identified(SeededState(SessionQuery, up, DefaultSeed), id)
          IN /\ st' = Update(Checkpointed(saved, id.session_id), input)
             /\ seed' = input
             /\ store' = [store EXCEPT !.checkpoints = saved]
    /\ pc' = "load_persistent_context"
    /\ steps' = 0
    /\ log' = [EmptyLog EXCEPT !.run = log.run + 1, !.wrote = log.wrote]

NextSession ==
    \/ LoadContext
    \/ ClassifyIntent
    \/ RouteClassified
    \/ FallbackHandler
    \/ SaveContext
    \/ Invoke

SessionSpec == InitSession /\ [][NextSession]_vars

\* The graph runtime runs the next node whenever there is one
FairSpec == Spec /\ WF_vars(Next)

\* ------------------------------------------------------------------------
\* Observations used by the properties
\* ------------------------------------------------------------------------

Count(node) == Cardinality({i \in 1..Len(log.path) : log.path[i] = node})

RunOver == pc \in {"END", "step_limit_error"}

\* the caller seeds no retry_count, should_continue or approval_required
OrdinaryRun ==
    /\ seed.retry_count = 0
    /\ ~seed.should_continue
    /\ ~seed.approval_required

\* invoke(query) with no pre-seeded control field
PlainRun ==
    seed = Identified(SeededState(seed.user_query, seed.uploaded_docs, DefaultSeed),
                      seed)

\* ------------------------------------------------------------------------
\* C1..C10
\* ------------------------------------------------------------------------

\* C1: every run reaches save-context and executes it exactly once before
\* the run ends, for every classifier outcome, handler outcome and seeded
\* approved / max_retries.
C1_SaveContextExactlyOnce ==
    (RunOver /\ OrdinaryRun) => Count("save_persistent_context") = 1

\* C2: an artifact generated and flagged in a run is never executed in that
\* run; a flagged artifact is executed only when the caller carried it in
\* together with approved=true.
C2_FlaggedNotExecuted ==
    OrdinaryRun =>
    \A i \in 1..Len(log.executed) :
        LET a == log.executed[i]
        IN /\ a \notin log.flagged
           /\ RequiresApproval(a) =>
                 /\ seed.approved
                 /\ a \in {seed.generated_sql, seed.code_to_execute}

\* C3: a run with approved=false in which the sql or code handler generates
\* a flagged artifact ends with status requires_approval, approval_required
\* and requires_human_input set, execution_result null and no final answer.
C3_FlaggedRunEndsAwaitingApproval ==
    (pc = "END" /\ PlainRun /\ log.flagged # {}) =>
        /\ st.execution_status = "requires_approval"
        /\ st.approval_required
        /\ st.requires_human_input
        /\ st.execution_result = Null
        /\ st.final_answer = NoAnswer

\* One step of handler `node` entered with approved=true and a non-empty
\* artifact in `slot` (no error appended means the execution succeeded)
C4_ResumeStep(node, slot) ==
    (pc = node /\ steps' = steps + 1 /\ st.approved /\ st[slot] \notin {Null, ""}) =>
        /\ log'.gen = log.gen
        /\ log'.val = log.val
        /\ st'[slot] = st[slot]
        /\ log'.executed = Append(log.executed, st[slot])
        /\ (st'.errors = st.errors) =>
              /\ st'.execution_status = "completed"
              /\ st'.final_answer # NoAnswer
              /\ st'.final_answer.art = st[slot]
              /\ log'.returned = Len(st.messages) + 1
              /\ SubSeq(st'.messages, 1, Len(st.messages)) = st.messages
              /\ LET m == st'.messages[log'.returned]
                 IN /\ m.role = "assistant"
                    /\ m.approved = TRUE
                    /\ m.content = st'.final_answer

\* C4: a sql or code handler entered with approved=true and a non-empty
\* stored artifact makes no generation call and no validation, leaves the
\* slot unchanged, executes exactly that artifact, and on success sets
\* status completed, writes the final answer and appends one assistant
\* message marked approved.
C4_ApprovedResumeExecutesStored ==
    [][ /\ C4_ResumeStep("sql_agent", "generated_sql")
        /\ C4_ResumeStep("code_agent", "code_to_execute") ]_vars

\* C4 happens: a run that carried a flagged artifact with approved=true
\* executed exactly it, without any generation, and completed.
C4_Witness ==
    /\ seed.approved
    /\ seed.generated_sql = "R0"
    /\ log.executed = <<"R0">>
    /\ log.gen = 0
    /\ st.execution_status = "completed"
    /\ st.messages[Len(st.messages)].approved

\* Executions of the two retrying handlers, and of any handler
RetryingRuns == Count("sql_agent") + Count("code_agent")
HandlerRuns == RetryingRuns + Count("rag_agent") + Count("research_agent")
               + Count("chat_agent")

\* C5: with retry_count = 0 and max_retries = N >= 1, a sql or code handler
\* that fails on every attempt is re-dispatched exactly N times (N+1
\* attempts), then the run terminates with status failed and a final answer
\* listing every accumulated error.
C5_FailingHandlerRetriedMaxTimes ==
    ( /\ RunOver
      /\ OrdinaryRun
      /\ seed.max_retries >= 1
      /\ RetryingRuns >= 1
      /\ Len(st.errors) = RetryingRuns ) =>
        /\ pc = "END"
        /\ RetryingRuns = seed.max_retries + 1
        /\ st.execution_status = "failed"
        /\ st.final_answer # NoAnswer
        /\ st.final_answer.errs = st.errors

\* C6: with max_retries = 0 a handler that fails on its first attempt is
\* executed exactly once, retry_count is not incremented, and the run ends
\* with status failed and a final failure message.
C6_ZeroBudgetFailsOnFirstAttempt ==
    ( /\ pc = "END"
      /\ OrdinaryRun
      /\ seed.max_retries = 0
      /\ HandlerRuns >= 1
      /\ st.errors # <<>> ) =>
        /\ HandlerRuns = 1
        /\ st.retry_count = 0
        /\ st.execution_status = "failed"
        /\ st.final_answer # NoAnswer

\* C7: in each of the five handlers, an exception appends the error and
\* applies the retry policy against the state's max_retries: under budget,
\* retry_count grows by one and should_continue is set; otherwise the status
\* is failed and the final answer summarizes the accumulated errors.
C7_RetryPolicyAgainstStateBound ==
    [][ ( /\ pc \in HandlerNodes
          /\ steps' = steps + 1
          /\ Len(st'.errors) = Len(st.errors) + 1 ) =>
            /\ SubSeq(st'.errors, 1, Len(st.errors)) = st.errors
            /\ IF st.retry_count < st.max_retries
               THEN /\ st'.retry_count = st.retry_count + 1
                    /\ st'.should_continue
               ELSE /\ st'.retry_count = st.retry_count
                    /\ st'.execution_status = "failed"
                    /\ st'.final_answer # NoAnswer
                    /\ st'.final_answer.errs = st'.errors ]_vars

\* C8: in a run started with retry_count = 0, retry_count never exceeds the
\* max_retries held in the state.
C8_RetryCountWithinStateBound ==
    OrdinaryRun => st.retry_count <= st.max_retries

\* Queries of the input set that contain a recency keyword, and those that
\* contain a lookup/explain keyword (read off the texts)
RecencyQueries == {QWeather, QKnow}
LookupQueries == {QWhat, QWhatIs}

\* C9: a query containing a recency keyword is routed to the research
\* handler for every classifier output and document availability; intent
\* becomes research, confidence max(previous, 0.75), and the override reason
\* is recorded in metadata.
C9_RecencyKeywordForcesResearch ==
    [][ (pc = "route_after_classification" /\ st.user_query \in RecencyQueries) =>
            /\ pc' = "research_agent"
            /\ st'.intent = "research"
            /\ st'.intent_confidence =
                  (IF st.intent_confidence >= 75 THEN st.intent_confidence ELSE 75)
            /\ st'.metadata.routing_override = "keyword_based_research" ]_vars

\* C9 happens: the classifier answered sql with confidence 0.9 for the
\* mixed-case weather query and the run was sent to the research handler.
C9_Witness ==
    /\ pc = "research_agent"
    /\ st.user_query = QWeather
    /\ log.classified = [intent |-> "sql", confidence |-> 90]
    /\ st.intent = "research"
    /\ st.intent_confidence = 90
    /\ st.metadata.routing_override = "keyword_based_research"

\* C10: without a recency keyword, when intent is unknown or confidence is
\* below 0.4: documents + lookup keyword + length > 5 gives document-QA with
\* intent rag and confidence 0.8; else documents + length > 10 gives
\* document-QA with intent rag and confidence 0.55; otherwise intent chat
\* with confidence 0.6 and the diagnostic-fallback node.
C10_LowConfidenceRouting ==
    [][ ( /\ pc = "route_after_classification"
          /\ st.user_query \notin RecencyQueries
          /\ (st.intent = "unknown" \/ st.intent_confidence < 40) ) =>
            LET q == st.user_query
                docs == st.uploaded_docs # <<>> \/ st.workspace_documents # {}
            IN  IF docs /\ q \in LookupQueries /\ Len(q) > 5
                THEN pc' = "rag_agent" /\ st'.intent = "rag"
                     /\ st'.intent_confidence = 80
                ELSE IF docs /\ Len(q) > 10
                THEN pc' = "rag_agent" /\ st'.intent = "rag"
                     /\ st'.intent_confidence = 55
                ELSE pc' = "fallback_handler" /\ st'.intent = "chat"
                     /\ st'.intent_confidence = 60 ]_vars

\* C10 happens: a low-confidence classification of a lookup query over a
\* workspace with documents was overridden to document-QA.
C10_Witness ==
    /\ pc = "rag_agent"
    /\ st.user_query = QWhatIs
    /\ log.classified = [intent |-> "sql", confidence |-> 39]
    /\ st.workspace_documents # {}
    /\ st.intent = "rag"
    /\ st.intent_confidence = 80

\* ------------------------------------------------------------------------
\* C11..C20
\* ------------------------------------------------------------------------

\* the handler node registered for an intent label
HandlerOf(label) ==
    CASE label = "rag" -> "rag_agent"
      [] label = "sql" -> "sql_agent"
      [] label = "code" -> "code_agent"
      [] label = "research" -> "research_agent"
      [] label = "chat" -> "chat_agent"

\* C11: without a recency keyword, a classified intent among rag, sql, code,
\* research, chat with confidence >= 0.4 is routed to exactly its handler
\* and the decision leaves intent and intent_confidence unchanged; every
\* decision is one of the seven targets registered on classify-intent.
C11_DispatchByLabel ==
    [][ pc = "route_after_classification" =>
          /\ pc' \in ClassifyTargets
          /\ ( /\ st.user_query \notin RecencyQueries
               /\ st.intent \in {"rag", "sql", "code", "research", "chat"}
               /\ st.intent_confidence >= 40 ) =>
                 /\ pc' = HandlerOf(st.intent)
                 /\ st'.intent = st.intent
                 /\ st'.intent_confidence = st.intent_confidence ]_vars

\* C11 happens: a chat classification at exactly 0.4 for a query without
\* recency keyword was dispatched to the chat handler, label and confidence
\* as classified.
C11_Witness ==
    /\ pc = "chat_agent"
    /\ log.path = <<"load_persistent_context", "classify_intent">>
    /\ st.user_query = QLong
    /\ log.classified = [intent |-> "chat", confidence |-> 40]
    /\ st.intent = "chat"
    /\ st.intent_confidence = 40

\* the tenant policy turns down the intent the classifier answered
TenantDenies ==
    LET intent == log.classified.intent
    IN /\ intent \in {"rag", "sql", "code", "research", "chat"}
       /\ \/ ~is_agent_allowed(seed.tenant_id, intent)
          \/ ~validate_request(seed.tenant_id, seed.user_query, intent).ok

\* C12: whenever the tenant policy denies the run (the classified intent's
\* handler is not allowed for the tenant, or validate_request is not ok),
\* the routing decision is graceful-fallback, no handler is executed in the
\* run, and the denial reason is recorded in metadata.
C12_TenantDenialRoutesToGracefulFallback ==
    (TenantDenies /\ Len(log.path) >= 2 /\ pc # "route_after_classification") =>
        /\ HandlerRuns = 0
        /\ Len(log.path) = 2 => pc = "graceful_fallback"
        /\ Len(log.path) > 2 => log.path[3] = "graceful_fallback"
        /\ st.metadata.blocked_reason # Null

\* C13: data persisted by a run under one tenant (chat messages, document
\* records) is never loaded into the state of a run under a different
\* tenant, whatever the user, workspace and session ids: a run that loads
\* its context finds nothing under its keys that another tenant's run wrote.
C13_NoCrossTenantLoad ==
    [][ (pc = "load_persistent_context" /\ pc' = "classify_intent") =>
          \A w \in log.wrote :
              w.tenant # st.tenant_id =>
                 /\ w.kind = "chat" =>
                       w.key # <<st'.user_id, st'.workspace_id, st'.session_id>>
                 /\ w.kind = "doc" =>
                       w.key # <<st'.user_id, st'.workspace_id>> ]_vars

C15_PersistenceFailureContained ==
    [][ /\ (pc = "load_persistent_context" => pc' = "classify_intent")
        /\ (pc = "save_persistent_context" => pc' = "END")
        /\ pc' # "raised" ]_vars

\* C16: in every run the final answer is written exactly once: a step that
\* changes final_answer finds it unwritten (no second handler execution
\* overwrites it), and the run does not pass through save-context to its end
\* with the final answer still unwritten.
C16_FinalAnswerWrittenOnce ==
    [][ /\ (st'.final_answer # st.final_answer => st.final_answer = NoAnswer)
        /\ (pc' = "END" => st'.final_answer # NoAnswer) ]_vars

\* C17: the message sequence is append-only across every node of a run: after
\* any step the previous sequence is a prefix of the new one, a node that
\* produces no message leaves the sequence as it was (nothing is
\* duplicated), and a handler execution that completes appends exactly one
\* assistant message.
C17_MessagesAppendOnly ==
    [][ /\ Len(st'.messages) >= Len(st.messages)
        /\ SubSeq(st'.messages, 1, Len(st.messages)) = st.messages
        /\ (pc \in {"approval_gate", "retry_handler", "save_persistent_context"}) =>
              st'.messages = st.messages
        /\ (/\ pc \in HandlerNodes \cup {"fallback_handler"}
            /\ st'.execution_status = "completed") =>
              /\ Len(st'.messages) = Len(st.messages) + 1
              /\ st'.messages[Len(st'.messages)].role = "assistant"
      ]_vars

\* C18: the save node passes to append_chat_messages exactly
\* messages[memory_loaded_count:], and with it: no message loaded from
\* persistence is persisted again, every message passed is stored, and the
\* one user message of the run is stored once, not twice.
C18_SavePersistsNewSlice ==
    [][ (pc = "save_persistent_context" /\ pc' = "END") =>
          LET rows == SubSeq(store'.chat, Len(store.chat) + 1, Len(store'.chat))
          IN /\ log'.appended = SubSeq(st.messages, st.memory_loaded_count + 1,
                                       Len(st.messages))
             /\ \A i \in 1..Len(log'.appended) :
                    log'.appended[i].agent # "persisted"
             /\ Len(rows) = Len(log'.appended)
             /\ Cardinality({i \in 1..Len(rows) : rows[i].role = "user"}) = 1
      ]_vars

\* C19: when a document record for the absolute path of every supplied path
\* is already registered for the run's (user, workspace), the load node
\* performs no upsert, leaves the document table as it was, with exactly one
\* record for each such path, and hands an empty uploaded_docs list on to
\* the handler.
C19_RegisteredPathNotReindexed ==
    [][ ( /\ pc = "load_persistent_context"
          /\ pc' = "classify_intent"
          /\ st.uploaded_docs # <<>>
          /\ \A i \in 1..Len(st.uploaded_docs) :
                \E d \in store.docs :
                    /\ d.user_id = st.user_id
                    /\ d.workspace_id = st'.workspace_id
                    /\ d.file_path = AbsPath(st.uploaded_docs[i]) ) =>
          /\ log'.upserts = 0
          /\ store'.docs = store.docs
          /\ st'.uploaded_docs = <<>>
          /\ \A i \in 1..Len(st.uploaded_docs) :
                Cardinality({d \in store'.docs :
                                /\ d.user_id = st.user_id
                                /\ d.workspace_id = st'.workspace_id
                                /\ AbsPath(d.file_path) = AbsPath(st.uploaded_docs[i])}) = 1
      ]_vars

\* the second run of a (user, workspace) supplied ./a.pdf after the first
\* had registered a.pdf, and its load node passed nothing on
C19_Witness ==
    /\ log.run = 2
    /\ pc = "classify_intent"
    /\ seed.uploaded_docs = <<PathADot>>
    /\ st.uploaded_docs = <<>>
    /\ log.upserts = 0
    /\ Wrote(seed.tenant_id, "doc", <<seed.user_id, st.workspace_id>>) \in log.wrote
    /\ store.docs = {DocRow(seed.user_id, st.workspace_id, AbsPath(PathA))}

\* C20: after invoke has seeded the state, tenant_id, user_id, the guest
\* flag, session_id and user_query have the seeded values in every later
\* state of the run, the final state included.
C20_IdentityNeverMutated ==
    /\ st.tenant_id = seed.tenant_id
    /\ st.user_id = seed.user_id
    /\ st.is_guest = seed.is_guest
    /\ st.session_id = seed.session_id
    /\ st.user_query = seed.user_query

\* a run of a named user under a non-default tenant, with a session id that
\* invoke generated, has gone through load, classification, a handler and
\* save
C20_Witness ==
    /\ pc = "END"
    /\ seed.tenant_id = "demo-tenant"
    /\ seed.user_id = "u1"
    /\ ~seed.is_guest
    /\ seed.session_id = Uuid(1)
    /\ st.final_answer # NoAnswer
    /\ Len(log.path) >= 4

\* ========================================================================
\* normalize_state as a function of an arbitrary partial state
\* ========================================================================
\* A partial state is a function from the keys it holds to Python values;
\* values are written as their literals.  In the specification below st is
\* the dictionary, seed the one the caller passed, pc whether a pass has
\* been made, steps the number of passes.

MaxPresent == 2
MaxPasses == 2

PyValues == {"None", "[]", "['x']", "{}", "{'k': 'v'}", "'x'", "'guest'"}
IsList(v) == v \in {"[]", "['x']"}
IsDict(v) == v \in {"{}", "{'k': 'v'}"}

\* normalize_state: the key and default of every setdefault call
NormalizeDefaults ==
    [ tenant_id |-> "'default'", user_id |-> "'guest'", session_id |-> "''",
      user_query |-> "''", intent |-> "'unknown'", intent_confidence |-> "0.0",
      messages |-> "[]", conversation_turn |-> "0", chat_history |-> "[]",
      memory_loaded_count |-> "0", uploaded_docs |-> "[]",
      db_connection |-> "None", db_schema |-> "None",
      workspace_id |-> "'default'", uploaded_doc_ids |-> "[]",
      workspace_documents |-> "[]", vector_index_path |-> "None",
      retrieved_context |-> "None", generated_sql |-> "None",
      sql_validation_result |-> "None", code_to_execute |-> "None",
      execution_result |-> "None", tool_outputs |-> "{}",
      research_results |-> "None", errors |-> "[]", retry_count |-> "0",
      max_retries |-> "3", approved |-> "False", approval_required |-> "False",
      approval_reason |-> "None", execution_status |-> "'pending'",
      confidence_score |-> "0.0", risk_level |-> "None", next_node |-> "None",
      should_continue |-> "False", requires_human_input |-> "False",
      final_answer |-> "None", metadata |-> "{}", model_used |-> "None",
      fallback_reason |-> "None" ]

\* the keys normalize_state writes: the setdefault keys and is_guest
NormalizedKeys == DOMAIN NormalizeDefaults \cup {"is_guest"}

\* normalize_state: the keys followed by "if not isinstance(..., list)"
ListChecked == {"messages", "chat_history", "uploaded_docs",
                "workspace_documents", "errors"}
\* normalize_state: the keys followed by "if not isinstance(..., dict)"
DictChecked == {"tool_outputs", "metadata"}

\* OrchestratorState: the fields annotated List[...] and Dict[...]
ListTyped == {"messages", "chat_history", "uploaded_docs", "uploaded_doc_ids",
              "workspace_documents", "errors"}
MapTyped == {"tool_outputs", "metadata"}

\* a guest flag that is recomputed from the one found
GuestFlagNegated(s, user_id) ==
    IF "is_guest" \in DOMAIN s
    THEN (IF s["is_guest"] = "True" THEN "False" ELSE "True")
    ELSE (IF user_id = "'guest'" THEN "True" ELSE "False")

\* normalize_state: normalized.get("is_guest", normalized["user_id"] == "guest")
GuestFlag(s, user_id) ==
    IF "is_guest" \in DOMAIN s THEN s["is_guest"]
    ELSE (IF user_id = "'guest'" THEN "True" ELSE "False")

\* normalize_state, one key: setdefault, then the container check if the
\* key has one
NormalizedValue(s, k) ==
    LET v == IF k \in DOMAIN s THEN s[k] ELSE NormalizeDefaults[k]
    IN  IF k \in ListChecked /\ ~IsList(v) THEN "[]"
        ELSE IF k \in DictChecked /\ ~IsDict(v) THEN "{}"
        ELSE v

\* normalize_state: a copy of the dictionary (keys it does not know are
\* kept) with every known key set
normalize_state(s) ==
    [ k \in DOMAIN s \cup NormalizedKeys |->
        IF k = "is_guest" THEN GuestFlag(s, NormalizedValue(s, "user_id"))
        ELSE IF k \in DOMAIN NormalizeDefaults THEN NormalizedValue(s, k)
        ELSE s[k] ]

\* Keys the enumerated partial states may hold: the container-typed ones,
\* the identity keys is_guest depends on, intent, a plain scalar, and a key
\* that is not a field of the state
InputKeys == ListTyped \cup MapTyped \cup
             {"user_id", "is_guest", "intent", "retry_count", "extra"}

PartialStates ==
    UNION { [D -> PyValues] :
            D \in {X \in SUBSET InputKeys : Cardinality(X) <= MaxPresent} }

InitNormalize ==
    \E s \in PartialStates :
        /\ st = s
        /\ seed = s
        /\ pc = "raw"
        /\ steps = 0
        /\ store = <<>>
        /\ log = <<>>

\* one call of normalize_state on the dictionary at hand
NormalizePass ==
    /\ pc \in {"raw", "normalized"}
    /\ steps < MaxPasses
    /\ st' = normalize_state(st)
    /\ pc' = "normalized"
    /\ steps' = steps + 1
    /\ UNCHANGED <<seed, store, log>>

NextNormalize == NormalizePass

NormalizeSpec == InitNormalize /\ [][NextNormalize]_vars

\* C21: normalize is idempotent: a second pass over a normalized partial
\* state changes nothing, so two passes give what one pass gives.
C21_NormalizeIdempotent ==
    /\ normalize_state(normalize_state(seed)) = normalize_state(seed)
    /\ pc = "normalized" => st = normalize_state(seed)

\* two passes were made over a partial state that had a wrong-typed
\* container, a key of its own and no guest flag
C21_Witness ==
    /\ steps = 2
    /\ "extra" \in DOMAIN seed
    /\ "messages" \in DOMAIN seed /\ ~IsList(seed["messages"])
    /\ st = normalize_state(seed)
    /\ st # seed

\* C22: after one pass of normalize every documented field is present, every
\* list-typed field holds a list, every map-typed field holds a map, and
\* intent is not null.
C22_NormalizedWellTyped ==
    pc = "normalized" =>
        /\ NormalizedKeys \subseteq DOMAIN st
        /\ \A k \in ListTyped : IsList(st[k])
        /\ \A k \in MapTyped : IsDict(st[k])
        /\ st["intent"] # "None"

\* ========================================================================
\* IntentRouter.classify over every backend behaviour
\* ========================================================================
\* In the specification below st is the state classify works on, seed the
\* state it was called with, log the backend's behaviour during the call,
\* pc whether the call is still to be made, has returned or has raised.

\* Confidence members of a response: in range, below 0, above 1, not a number
ResponseConfidences ==
    {Num(v) : v \in Confidences \cup {0 - 50, 100, 150}} \cup {NotNum}

\* intent members of a response: the enum values, a word outside the enum,
\* an empty label and no label
ResponseIntents == Labels \cup {"", Null}

Responses ==
    {Response(k, Null, NotNum) : k \in ResponseKinds \ {"object"}}
    \cup {Response("object", i, c) : i \in ResponseIntents, c \in ResponseConfidences}

\* the states classify is called with: an empty or a non-empty query, with
\* and without earlier errors, with and without an intent left by the caller
InitClassify ==
    \E q \in {QEmpty, QMid}, e \in {<<>>, <<"earlier error">>},
       i \in {"unknown", "sql"} :
        /\ st = [Identified(SeededState(q, <<>>, DefaultSeed), DefaultIdentity)
                    EXCEPT !.errors = e,
                           !.intent = i,
                           !.intent_confidence = IF i = "unknown" THEN 0 ELSE 90]
        /\ seed = st
        /\ pc = "classify"
        /\ steps = 0
        /\ store = <<>>
        /\ log = Response("none", Null, NotNum)

\* a direct call of IntentRouter.classify
ClassifyCall ==
    /\ pc = "classify"
    /\ \E r \in Responses :
          LET c == classify(st, r)
          IN /\ st' = c.st
             /\ pc' = IF c.raised THEN "raised" ELSE "returned"
             /\ log' = r
    /\ steps' = steps + 1
    /\ UNCHANGED <<seed, store>>

\* a call through the graph node _classify_intent_node
ClassifyNodeCall ==
    /\ pc = "classify"
    /\ \E r \in Responses :
          /\ st' = classify_intent_node(st, r)
          /\ log' = r
    /\ pc' = "node_returned"
    /\ steps' = steps + 1
    /\ UNCHANGED <<seed, store>>

NextClassify == ClassifyCall \/ ClassifyNodeCall

ClassifySpec == InitClassify /\ [][NextClassify]_vars

\* the call took one of the failure paths: empty query, formatting or
\* invocation failure, no text, malformed JSON, JSON that is not an object,
\* a label outside the enum
ClassifyFailurePath(q, r) ==
    \/ q = <<>>
    \/ r.kind # "object"
    \/ r.intent \notin Intents \cup {"", Null}

\* C23: classify never raises and always leaves an intent of the closed set;
\* on every failure path the intent is unknown, the confidence 0 and a
\* reason is recorded in metadata.
C23_ClassifyNeverRaises ==
    [][ (pc = "classify" /\ pc' \in {"returned", "raised"}) =>
          /\ pc' = "returned"
          /\ st'.intent \in Intents
          /\ ClassifyFailurePath(st.user_query, log') =>
                /\ st'.intent = "unknown"
                /\ st'.intent_confidence = 0
                /\ st'.metadata.intent_reasoning # Null
      ]_vars

\* C24: after classify the confidence is a number in [0, 1] for every
\* response, also one whose confidence is below 0 or above 1, and a
\* confidence that is not a number yields 0.5.
C24_ConfidenceInUnitInterval ==
    [][ (pc = "classify" /\ pc' = "returned") =>
          /\ st'.intent_confidence \in 0..100
          /\ (/\ ~ClassifyFailurePath(st.user_query, log')
              /\ ~log'.confidence.num) =>
                st'.intent_confidence = DefaultConfidence
      ]_vars

\* C25: classify appends to the error list only on a prompt-formatting or
\* backend-invocation failure, exactly one entry; on an empty query, a
\* response without text, malformed JSON or a label outside the enum the
\* list is left as it was.
C25_ErrorsOnlyForBackendFailures ==
    [][ (pc = "classify" /\ pc' = "returned") =>
          IF st.user_query # <<>> /\ log'.kind \in {"format_error", "invoke_error"}
          THEN /\ Len(st'.errors) = Len(st.errors) + 1
               /\ SubSeq(st'.errors, 1, Len(st.errors)) = st.errors
          ELSE st'.errors = st.errors
      ]_vars

\* the backend call raised during a classify call on a state that already
\* held an error, and one entry was added
C25_Witness ==
    /\ pc = "returned"
    /\ log.kind = "invoke_error"
    /\ seed.user_query # <<>>
    /\ seed.errors = <<"earlier error">>
    /\ st.errors = <<"earlier error", "LLM invocation error">>
    /\ st.metadata.intent_reasoning = "LLM invocation failed"

\* ========================================================================
\* LLMRouter.invoke
\* ========================================================================
\* In the specification below st is the state handed to invoke (NoState when
\* the caller passes none), seed that state before the call, store the
\* router's configuration, log what the call did, pc whether the call is
\* still to be made, has returned or has raised.

\* LLMRouter.__init__: primary_model and the fallback's identity
PrimaryModel == "gemini-2.5-flash"
FallbackModel == "huggingface:HuggingFaceH4/zephyr-7b-beta"
QuotaReason == "ResourceExhausted (429) - Gemini quota limit reached"

\* _is_quota_exhausted_429: the substrings looked for in str(err).lower()
TokResourceExhausted == <<"r", "e", "s", "o", "u", "r", "c", "e", "e", "x", "h", "a", "u", "s", "t", "e", "d">>
TokResourceExhaustedSpaced == <<"r", "e", "s", "o", "u", "r", "c", "e", " ", "e", "x", "h", "a", "u", "s", "t", "e", "d">>
Tok429 == <<"4", "2", "9">>
TokQuota == <<"q", "u", "o", "t", "a">>

\* Exceptions a backend call may raise: class and message
Err(type, msg) == [type |-> type, msg |-> msg]
BackendErrors ==
    { Err("ResourceExhausted", <<"l", "i", "m", "i", "t">>),
      Err("ResourceExhausted", <<"4", "2", "9", " ", "Q", "u", "o", "t", "a">>),
      Err("Exception", <<"R", "e", "s", "o", "u", "r", "c", "e", "E", "x", "h", "a", "u", "s", "t", "e", "d", " ", "4", "2", "9">>),
      Err("Exception", <<"R", "e", "s", "o", "u", "r", "c", "e", " ", "E", "x", "h", "a", "u", "s", "t", "e", "d", " ", "4", "2", "9">>),
      Err("Exception", <<"4", "2", "9", " ", "Q", "u", "o", "t", "a">>),
      Err("Exception", <<"R", "e", "s", "o", "u", "r", "c", "e", "E", "x", "h", "a", "u", "s", "t", "e", "d">>),
      Err("Exception", <<"4", "2", "9", " ", "b", "u", "s", "y">>),
      Err("TimeoutError", <<"t", "i", "m", "e", "o", "u", "t">>) }

\* What a backend call does: it answers, or raises one of the exceptions
Answered == [ok |-> TRUE, err |-> Err("none", <<>>)]
Raised(e) == [ok |-> FALSE, err |-> e]
\* google: google.api_core could be imported; its ResourceExhausted class
\* is there to be raised only then
BackendOutcomes(google) ==
    {Answered} \cup
    {Raised(e) : e \in {x \in BackendErrors : x.type = "ResourceExhausted" => google}}

\* a test that takes every 429 for the quota signal
IsAny429(err, google) ==
    Contains(Lower(err.msg), Tok429)

\* _is_quota_exhausted_429.  google: google.api_core could be imported
is_quota_exhausted_429(err, google) ==
    LET s_ == Lower(err.msg)
    IN \/ google /\ err.type = "ResourceExhausted"
       \/ Contains(s_, TokResourceExhausted) /\ Contains(s_, Tok429)
       \/ Contains(s_, TokResourceExhaustedSpaced) /\ Contains(s_, Tok429)
       \/ Contains(s_, Tok429) /\ Contains(s_, TokQuota)

\* invoke: state=None
NoState == [none |-> "None"]

\* invoke, primary success: the model is recorded and the marker cleared
PrimaryAnswered(s) ==
    IF s = NoState THEN s
    ELSE [s EXCEPT !.model_used = PrimaryModel, !.fallback_reason = Null]

\* a fallback success that records the model only
FallbackAnsweredUnmarked(s) ==
    IF s = NoState THEN s
    ELSE [s EXCEPT !.model_used = FallbackModel]

\* invoke, fallback success: model, reason and the metadata annotation
FallbackAnswered(s) ==
    IF s = NoState THEN s
    ELSE [s EXCEPT !.model_used = FallbackModel,
                   !.fallback_reason = QuotaReason,
                   !.metadata.fallback_used = "True"]

\* LLMRouter.invoke.  cfg: enable_fallback and whether google.api_core is
\* there; primary, fallback: what each backend does when called.  calls:
\* the backends called, in order; error: the exception that leaves invoke
llm_invoke(s, cfg, primary, fallback) ==
    IF primary.ok
    THEN [raised |-> FALSE, error |-> Answered.err, st |-> PrimaryAnswered(s),
          calls |-> <<"primary">>]
    ELSE IF ~(cfg.enable_fallback /\ is_quota_exhausted_429(primary.err, cfg.google))
    THEN [raised |-> TRUE, error |-> primary.err, st |-> s,
          calls |-> <<"primary">>]
    ELSE IF fallback.ok
    THEN [raised |-> FALSE, error |-> Answered.err, st |-> FallbackAnswered(s),
          calls |-> <<"primary", "fallback">>]
    ELSE [raised |-> TRUE, error |-> fallback.err, st |-> s,
          calls |-> <<"primary", "fallback">>]

\* OrchestratorState with the model-tracking fields and the metadata keys
\* the router and the handlers write
TrackedMetadata ==
    [routing_override |-> Null, intent_reasoning |-> Null, blocked_reason |-> Null,
     fallback_used |-> Null, fallback_notified |-> Null]
Tracked(s, model_used, fallback_reason, metadata) ==
    [k \in DOMAIN s \cup {"model_used", "fallback_reason"} |->
        IF k = "model_used" THEN model_used
        ELSE IF k = "fallback_reason" THEN fallback_reason
        ELSE IF k = "metadata" THEN metadata
        ELSE s[k]]

RouterConfigs == [enable_fallback : BOOLEAN, google : BOOLEAN]

NoCall == [primary |-> Answered, fallback |-> Answered, calls |-> <<>>,
           error |-> Answered.err]

\* the states invoke is called with: none, a fresh one, and one an earlier
\* call of the run has marked
InitRouter ==
    \E cfg \in RouterConfigs,
       s \in {NoState} \cup
             { Tracked(DefaultState(QMid), m, r, md) :
                 m \in {Null, PrimaryModel, FallbackModel},
                 r \in {Null, QuotaReason},
                 md \in {TrackedMetadata,
                         [TrackedMetadata EXCEPT !.fallback_used = "True"],
                         [TrackedMetadata EXCEPT !.intent_reasoning = "reasoning"]} } :
        /\ st = s
        /\ seed = s
        /\ store = cfg
        /\ pc = "call"
        /\ steps = 0
        /\ log = NoCall

\* one call of LLMRouter.invoke
RouterInvoke ==
    /\ pc = "call"
    /\ \E primary \in BackendOutcomes(store.google), fallback \in BackendOutcomes(store.google) :
          LET r == llm_invoke(st, store, primary, fallback)
          IN /\ st' = r.st
             /\ pc' = IF r.raised THEN "raised" ELSE "returned"
             /\ log' = [primary |-> primary, fallback |-> fallback,
                        calls |-> r.calls, error |-> r.error]
    /\ steps' = steps + 1
    /\ UNCHANGED <<seed, store>>

NextRouter == RouterInvoke

RouterSpec == InitRouter /\ [][NextRouter]_vars

\* the quota signal: the typed ResourceExhausted exception, or a message that
\* carries 429 with a resource-exhaustion or quota marker
QuotaSignals ==
    { Err("ResourceExhausted", <<"l", "i", "m", "i", "t">>),
      Err("ResourceExhausted", <<"4", "2", "9", " ", "Q", "u", "o", "t", "a">>),
      Err("Exception", <<"R", "e", "s", "o", "u", "r", "c", "e", "E", "x", "h", "a", "u", "s", "t", "e", "d", " ", "4", "2", "9">>),
      Err("Exception", <<"R", "e", "s", "o", "u", "r", "c", "e", " ", "E", "x", "h", "a", "u", "s", "t", "e", "d", " ", "4", "2", "9">>),
      Err("Exception", <<"4", "2", "9", " ", "Q", "u", "o", "t", "a">>) }

\* C26: the secondary backend is called only when the primary call failed
\* with the quota signal, and then once; any other primary failure leaves
\* invoke as it was raised, without a secondary call; a failure of the
\* secondary call leaves invoke without another attempt.
C26_FallbackOnlyOnQuota ==
    pc \in {"returned", "raised"} =>
        LET quota == ~log.primary.ok /\ log.primary.err \in QuotaSignals
            secondary == Cardinality({i \in 1..Len(log.calls) : log.calls[i] = "fallback"})
        IN /\ Len(log.calls) <= 2
           /\ log.calls[1] = "primary"
           /\ secondary <= 1
           /\ secondary = 1 => quota
           /\ (quota /\ store.enable_fallback) => secondary = 1
           /\ (~log.primary.ok /\ ~quota) =>
                 pc = "raised" /\ log.error = log.primary.err /\ secondary = 0
           /\ (secondary = 1 /\ ~log.fallback.ok) =>
                 pc = "raised" /\ log.error = log.fallback.err

\* the primary call failed with a quota error that only its message shows,
\* the secondary was called once, failed, and its error left invoke
C26_Witness ==
    /\ pc = "raised"
    /\ log.calls = <<"primary", "fallback">>
    /\ log.primary.err = Err("Exception", <<"4", "2", "9", " ", "Q", "u", "o", "t", "a">>)
    /\ log.fallback.err = Err("TimeoutError", <<"t", "i", "m", "e", "o", "u", "t">>)
    /\ log.error = log.fallback.err

\* C27: after a successful invoke with a state, model_used names the backend
\* that answered: the primary model with fallback_reason cleared, or the
\* fallback model with fallback_reason set and metadata.fallback_used true;
\* when invoke raises, model_used, fallback_reason and metadata are as they
\* were.
C27_ModelUsedNamesBackend ==
    (pc \in {"returned", "raised"} /\ seed # NoState) =>
        /\ (pc = "returned" /\ log.calls = <<"primary">>) =>
              /\ st.model_used = PrimaryModel
              /\ st.fallback_reason = Null
        /\ (pc = "returned" /\ log.calls = <<"primary", "fallback">>) =>
              /\ st.model_used = FallbackModel
              /\ st.fallback_reason # Null
              /\ st.metadata.fallback_used = "True"
        /\ pc = "raised" =>
              /\ st.model_used = seed.model_used
              /\ st.fallback_reason = seed.fallback_reason
              /\ st.metadata = seed.metadata

\* the fallback answered for a state that the primary had marked before
C27_Witness ==
    /\ pc = "returned"
    /\ seed # NoState
    /\ seed.model_used = PrimaryModel
    /\ seed.metadata.fallback_used = Null
    /\ log.calls = <<"primary", "fallback">>
    /\ st.model_used = FallbackModel
    /\ st.metadata.fallback_used = "True"

\* ========================================================================
\* The fallback notice over a run
\* ========================================================================
\* In the specification below a run starts at classify_intent with the state
\* load_persistent_context left and ends where save_persistent_context
\* takes over.  st carries the model-tracking fields, store is the router's
\* configuration, log counts the model calls that fell back and the notices
\* put in front of an answer.

\* RAGAgent.generate_answer, ResearchAgent.execute: the note in front of the
\* answer text
FallbackNotice ==
    <<"(Note: Gemini quota was reached; using a fallback model for this response.)">>

\* Python truthiness of state["metadata"]: a dict without keys is falsy
EmptyMetadata(md) == \A k \in DOMAIN md : md[k] = Null

\* if state.get("fallback_reason") and not metadata.get("fallback_notified")
NoticeDue(s) ==
    s.fallback_reason # Null /\ s.metadata.fallback_notified = Null

\* a handler's model call; called: the handler gets as far as the call
ModelCall(s, called, cfg, primary, fallback) ==
    IF called
    THEN llm_invoke(s, cfg, primary, fallback)
    ELSE [raised |-> FALSE, error |-> Answered.err, st |-> s, calls |-> <<>>]
FellBack(m) == ~m.raised /\ Len(m.calls) = 2

\* the answer and the assistant message that carries it, with the note
WithNotice(s) ==
    [s EXCEPT !.final_answer.text = FallbackNotice,
              !.messages[Len(s.messages)].content.text = FallbackNotice]

\* RAGAgent.generate_answer works on its own normalize_state copy: the
\* router's model_used and fallback_reason stay on the copy, and so does the
\* metadata when the router replaced an empty one by a new dict; a metadata
\* dict with keys is the caller's own.  context: retrieval found text
rag_generate_answer(s, cfg, context, primary, fallback) ==
    LET m == ModelCall(s, context, cfg, primary, fallback)
        due == ~m.raised /\ NoticeDue(m.st)
        copy == IF due THEN [m.st EXCEPT !.metadata.fallback_notified = "True"]
                ELSE m.st
    IN [ call |-> m,
         notice |-> due,
         metadata |-> IF EmptyMetadata(s.metadata) THEN s.metadata
                      ELSE copy.metadata ]

\* RAGAgent.execute with its model call
RagAgentRun(s, cfg, context, primary, fallback) ==
    LET g == rag_generate_answer(s, cfg, context, primary, fallback)
        e == RagAgentExecute([s EXCEPT !.metadata = g.metadata], ~g.call.raised)
    IN [ call |-> g.call, notice |-> g.notice,
         st |-> IF g.notice THEN WithNotice(e) ELSE e ]

\* ResearchAgent.execute with its model call (synthesize), on its own state
ResearchAgentRun(s, cfg, primary, fallback) ==
    LET m == ModelCall(s, TRUE, cfg, primary, fallback)
        due == ~m.raised /\ NoticeDue(m.st)
        s1 == IF due THEN [m.st EXCEPT !.metadata.fallback_notified = "True"]
              ELSE m.st
        e == ResearchAgentExecute(s1, ~m.raised)
    IN [ call |-> m, notice |-> due,
         st |-> IF due THEN WithNotice(e) ELSE e ]

\* what a backend does to a model call of the run
RunOutcomes ==
    { Answered,
      Raised(Err("Exception", <<"4", "2", "9", " ", "Q", "u", "o", "t", "a">>)),
      Raised(Err("TimeoutError", <<"t", "i", "m", "e", "o", "u", "t">>)) }

NoticeLog ==
    [k \in DOMAIN EmptyLog \cup {"fell_back", "notices"} |->
        IF k \in {"fell_back", "notices"} THEN 0 ELSE EmptyLog[k]]

\* the log after a node made model call m and put notice in or not
Called(l, m, notice) ==
    [l EXCEPT !.fell_back = @ + (IF FellBack(m) THEN 1 ELSE 0),
              !.notices = @ + (IF notice THEN 1 ELSE 0)]

\* invoke: the kwargs that matter to the run's shape, and a metadata dict
\* the caller may pass
NoticeSeeds ==
    { DefaultSeed,
      [DefaultSeed EXCEPT !.should_continue = TRUE],
      [DefaultSeed EXCEPT !.approval_required = TRUE],
      [DefaultSeed EXCEPT !.approved = TRUE, !.generated_sql = "S0"] }

InitNotice ==
    /\ \E q \in {QWeather, QLong, QMid}, up \in {<<>>, <<PathA>>},
          k \in NoticeSeeds, notified \in {Null, "True"}, cfg \in RouterConfigs :
          /\ st = Tracked(SeededState(q, up, k), Null, Null,
                          [TrackedMetadata EXCEPT !.fallback_notified = notified])
          /\ store = cfg
    /\ seed = st
    /\ pc = "classify_intent"
    /\ steps = 0
    /\ log = NoticeLog

\* node classify_intent with the classifier's model call
NoticeClassifyIntent ==
    /\ pc = "classify_intent"
    /\ steps < MaxSteps
    /\ \E primary \in RunOutcomes, fallback \in RunOutcomes,
          kind \in {"object", "not_object"}, label \in Labels :
          LET m == ModelCall(st, TRUE, store, primary, fallback)
              r == IF m.raised THEN Response("invoke_error", Null, NotNum)
                   ELSE Response(kind, label, Num(90))
          IN /\ st' = UpdateInPlace(classify_intent_node(m.st, r))
             /\ log' = Called(Ran("classify_intent"), m, FALSE)
    /\ pc' = "route_after_classification"
    /\ steps' = steps + 1
    /\ UNCHANGED <<seed, store>>

\* node rag_agent and its edge _route_after_agent
NoticeRagAgent ==
    /\ pc = "rag_agent"
    /\ steps < MaxSteps
    /\ \E primary \in RunOutcomes, fallback \in RunOutcomes, context \in BOOLEAN :
          LET r == RagAgentRun(st, store, context, primary, fallback)
          IN /\ st' = UpdateInPlace(r.st)
             /\ log' = Called(Ran("rag_agent"), r.call, r.notice)
    /\ pc' = RouteAfterAgent(st')
    /\ steps' = steps + 1
    /\ UNCHANGED <<seed, store>>

\* node research_agent and its edge _route_after_agent
NoticeResearchAgent ==
    /\ pc = "research_agent"
    /\ steps < MaxSteps
    /\ \E primary \in RunOutcomes, fallback \in RunOutcomes :
          LET r == ResearchAgentRun(st, store, primary, fallback)
          IN /\ st' = UpdateInPlace(r.st)
             /\ log' = Called(Ran("research_agent"), r.call, r.notice)
    /\ pc' = RouteAfterAgent(st')
    /\ steps' = steps + 1
    /\ UNCHANGED <<seed, store>>

\* node sql_agent with generate_sql's model call
NoticeSqlAgent ==
    /\ pc = "sql_agent"
    /\ steps < MaxSteps
    /\ \E primary \in RunOutcomes, fallback \in RunOutcomes, art \in GenArtifacts :
          LET m == ModelCall(st, ~SqlResuming(st), store, primary, fallback)
              r == SqlAgentExecute(m.st, Ran("sql_agent"), ~m.raised, art)
          IN /\ st' = UpdateInPlace(r.st)
             /\ log' = Called(r.log, m, FALSE)
    /\ pc' = RouteAfterAgent(st')
    /\ steps' = steps + 1
    /\ UNCHANGED <<seed, store>>

\* node code_agent with generate_code's model call
NoticeCodeAgent ==
    /\ pc = "code_agent"
    /\ steps < MaxSteps
    /\ \E primary \in RunOutcomes, fallback \in RunOutcomes, art \in GenArtifacts,
          execOk \in BOOLEAN :
          LET m == ModelCall(st, ~CodeResuming(st), store, primary, fallback)
              r == CodeAgentExecute(m.st, Ran("code_agent"), ~m.raised, art, execOk)
          IN /\ st' = UpdateInPlace(r.st)
             /\ log' = Called(r.log, m, FALSE)
    /\ pc' = RouteAfterAgent(st')
    /\ steps' = steps + 1
    /\ UNCHANGED <<seed, store>>

\* nodes chat_agent and fallback_handler: ChatAgent.execute with its model call
NoticeChatAgent ==
    /\ pc \in {"chat_agent", "fallback_handler"}
    /\ steps < MaxSteps
    /\ \E primary \in RunOutcomes, fallback \in RunOutcomes :
          LET m == ModelCall(st, TRUE, store, primary, fallback)
          IN /\ st' = UpdateInPlace(ChatAgentExecute(m.st, ~m.raised))
             /\ log' = Called(Ran(pc), m, FALSE)
    /\ pc' = IF pc = "chat_agent" THEN RouteAfterAgent(st')
             ELSE "save_persistent_context"
    /\ steps' = steps + 1
    /\ UNCHANGED <<seed, store>>

NextNotice ==
    \/ NoticeClassifyIntent
    \/ RouteClassified
    \/ NoticeRagAgent
    \/ NoticeResearchAgent
    \/ NoticeSqlAgent
    \/ NoticeCodeAgent
    \/ NoticeChatAgent
    \/ ApprovalGate
    \/ RetryHandler

NoticeSpec == InitNotice /\ [][NextNotice]_vars

\* C28: in a run the fallback notice is put into the final answer at most
\* once, whatever the number of model calls that fall back and of handler
\* executions, and metadata.fallback_notified, once set, stays set.
C28_NoticeAtMostOnce ==
    [][ /\ log'.notices <= 1
        /\ (st.metadata.fallback_notified = "True"
               => st'.metadata.fallback_notified = "True")
    ]_vars

\* the classifier's call and the research handler's call both fell back, the
\* answer carries the notice, put in once, and the flag is set
C28_Witness ==
    /\ pc = "save_persistent_context"
    /\ log.fell_back = 2
    /\ log.notices = 1
    /\ log.path = <<"classify_intent", "research_agent">>
    /\ st.final_answer.text = FallbackNotice
    /\ st.metadata.fallback_notified = "True"

\* ========================================================================
\* RAGAgent's cache of retrieval indexes under concurrent requests
\* ========================================================================
\* In the specification below two requests run on the one orchestrator the
\* process holds, each on its own thread.  store is self.vector_stores, st
\* each request's locals, pc each request's position, steps the number of
\* index objects made so far, log the objects made
\* and whose chunks each holds.

Requests == {"r1", "r2"}

\* index objects: none, and the n-th one made
NoIndex == <<>>
Index(n) == <<"faiss", n>>

\* cache_key = f"{tenant_id}::{user_id}::{workspace_id}"
CacheKey(tenant_id, user_id, workspace_id) == <<tenant_id, user_id, workspace_id>>
CacheKeys == {CacheKey("default", "guest", w) : w \in Workspaces}

\* the calls that look the index up: load_documents (then add_documents)
\* and retrieve (then similarity_search)
Lookups == {"load_documents", "retrieve"}

\* a request's locals: its key, the call, whether vector_index_path names a
\* directory, and the store it holds
RequestLocals(key, call, index_dir) ==
    [key |-> key, call |-> call, index_dir |-> index_dir, store |-> NoIndex]

\* RAGAgent.__init__: self.vector_stores = {}
InitStore ==
    /\ store = [k \in CacheKeys |-> NoIndex]
    /\ st \in [Requests -> {RequestLocals(k, c, d) :
                               k \in CacheKeys, c \in Lookups, d \in BOOLEAN}]
    /\ pc = [t \in Requests |-> "lookup"]
    /\ steps = 0
    /\ seed = st
    /\ log = [made |-> {}, chunks |-> <<>>]

\* a new index object for key, made by request t
Made(t, key) ==
    [log EXCEPT !.made = @ \cup {[id |-> Index(steps + 1), key |-> key, by |-> t]},
                !.chunks = Append(@, {})]

\* if cache_key in self.vector_stores: return self.vector_stores[cache_key]
StoreLookup(t) ==
    /\ pc[t] = "lookup"
    /\ IF store[st[t].key] # NoIndex
       THEN /\ st' = [st EXCEPT ![t].store = store[st[t].key]]
            /\ pc' = [pc EXCEPT ![t] = "use"]
       ELSE /\ pc' = [pc EXCEPT ![t] = IF st[t].index_dir THEN "load_local"
                                        ELSE "from_texts"]
            /\ UNCHANGED st
    /\ UNCHANGED <<steps, seed, store, log>>

\* store = FAISS.load_local(index_path, ...), or the except branch
StoreLoadLocal(t) ==
    /\ pc[t] = "load_local"
    /\ \E ok \in BOOLEAN :
          IF ok
          THEN /\ st' = [st EXCEPT ![t].store = Index(steps + 1)]
               /\ steps' = steps + 1
               /\ log' = Made(t, st[t].key)
               /\ pc' = [pc EXCEPT ![t] = "cache_put"]
          ELSE /\ pc' = [pc EXCEPT ![t] = "from_texts"]
               /\ UNCHANGED <<st, steps, log>>
    /\ UNCHANGED <<seed, store>>

\* store = FAISS.from_texts(["No documents loaded yet."], self.embeddings)
StoreFromTexts(t) ==
    /\ pc[t] = "from_texts"
    /\ st' = [st EXCEPT ![t].store = Index(steps + 1)]
    /\ steps' = steps + 1
    /\ log' = Made(t, st[t].key)
    /\ pc' = [pc EXCEPT ![t] = "cache_put"]
    /\ UNCHANGED <<seed, store>>

\* self.vector_stores[cache_key] = store; return store
StoreCachePut(t) ==
    /\ pc[t] = "cache_put"
    /\ store' = [store EXCEPT ![st[t].key] = st[t].store]
    /\ pc' = [pc EXCEPT ![t] = "use"]
    /\ UNCHANGED <<st, steps, seed, log>>

\* load_documents: store.add_documents(splits); retrieve:
\* store.similarity_search(query, k=k)
StoreUse(t) ==
    /\ pc[t] = "use"
    /\ log' = IF st[t].call = "load_documents"
              THEN [log EXCEPT !.chunks[st[t].store[2]] = @ \cup {t}]
              ELSE log
    /\ pc' = [pc EXCEPT ![t] = "done"]
    /\ UNCHANGED <<st, steps, seed, store>>

NextStore ==
    \E t \in Requests :
        \/ StoreLookup(t)
        \/ StoreLoadLocal(t)
        \/ StoreFromTexts(t)
        \/ StoreCachePut(t)
        \/ StoreUse(t)

StoreSpec == InitStore /\ [][NextStore]_vars

\* C29: two requests with the same (tenant, user, workspace) key that looked
\* the index up from an empty cache hold the same index object, the cached
\* one, and it is the only object made for the key.
C29_OneIndexPerKey ==
    \A a \in Requests, b \in Requests :
        ( /\ a # b
          /\ st[a].key = st[b].key
          /\ pc[a] \in {"use", "done"}
          /\ pc[b] \in {"use", "done"} )
        => /\ st[a].store = st[b].store
           /\ st[a].store = store[st[a].key]
           /\ Cardinality({o \in log.made : o.key = st[a].key}) = 1

\* ========================================================================
\* CodeExecutor.execute_safe
\* ========================================================================
\* In the specification below the process makes up to MaxCalls calls of
\* execute_safe.  store is what the platform does with the resource limits
\* and whether the process runs under them, st the call in progress (script,
\* worker thread, captured output, execution_error, result), pc the caller's
\* position, steps the number of calls made, log the results returned and
\* the workers left running.

\* calls of execute_safe in the life of the process
MaxCalls == 2

\* how a script ends, the text of the exception it raises, whether it prints
Scripts ==
    [ends : {"returns", "loops"}, message : {Null}, prints : BOOLEAN] \cup
    [ends : {"raises"}, message : {"", "division by zero"}, prints : BOOLEAN]

\* import resource fails; setrlimit raises ValueError or OSError; or the
\* limits are set
Platforms == {"no_resource", "setrlimit_rejected", "setrlimit_applied"}

\* the error texts of the three failure results
TimeoutError == "Code execution timeout after 30 seconds"
SetupError == "Execution error: can't start new thread"

Result(success, output, error) ==
    [success |-> success, output |-> output, error |-> error]
NoResult == Result(FALSE, "", "no result")

\* what the script has written to output_buffer when it is read
Output(script) == IF script.prints THEN "out" ELSE ""

NoScript == [ends |-> "none", message |-> Null, prints |-> FALSE]
NotCalled ==
    [script |-> NoScript, worker |-> "none", execution_error |-> Null,
     timed_out |-> FALSE, result |-> NoResult]

InitExec ==
    /\ \E p \in Platforms : store = [platform |-> p, limited |-> FALSE]
    /\ st = NotCalled
    /\ seed = NotCalled
    /\ pc = "idle"
    /\ steps = 0
    /\ log = [results |-> <<>>, abandoned |-> {}]

\* a caller passes code to execute_safe
ExecCall ==
    /\ pc \in {"idle", "returned"}
    /\ steps < MaxCalls
    /\ \E script \in Scripts :
          st' = [NotCalled EXCEPT !.script = script]
    /\ seed' = st'
    /\ pc' = "limits"
    /\ steps' = steps + 1
    /\ UNCHANGED <<store, log>>

\* if resource is not None: setrlimit(RLIMIT_AS), setrlimit(RLIMIT_CPU,
\* (timeout, timeout)), on the process
SetLimits ==
    /\ pc = "limits"
    /\ store' = IF store.platform = "setrlimit_applied"
                THEN [store EXCEPT !.limited = TRUE]
                ELSE store
    /\ pc' = "setup"
    /\ UNCHANGED <<st, steps, seed, log>>

\* the body of the try up to thread.start(); ok: nothing in it raises
Setup ==
    /\ pc = "setup"
    /\ \E ok \in BOOLEAN :
          IF ok
          THEN /\ st' = [st EXCEPT !.worker = "running"]
               /\ pc' = "joined"
               /\ UNCHANGED log
          ELSE /\ st' = [st EXCEPT !.result = Result(FALSE, "", SetupError)]
               /\ pc' = "returned"
               /\ log' = [log EXCEPT !.results = Append(@, st'.result)]
    /\ UNCHANGED <<steps, seed, store>>

\* execute_code in the worker thread: exec returns or raises
WorkerEnds ==
    /\ pc = "joined"
    /\ st.worker = "running"
    /\ st.script.ends # "loops"
    /\ st' = [st EXCEPT !.worker = "ended",
                        !.execution_error = st.script.message]
    /\ UNCHANGED <<pc, steps, seed, store, log>>

\* thread.join(timeout=timeout) returns because the worker has ended
JoinReturns ==
    /\ pc = "joined"
    /\ st.worker = "ended"
    /\ st' = [st EXCEPT !.result =
                  IF Truthy(st.execution_error)
                  THEN Result(FALSE, Output(st.script), st.execution_error)
                  ELSE Result(TRUE, Output(st.script), Null)]
    /\ pc' = "returned"
    /\ log' = [log EXCEPT !.results = Append(@, st'.result)]
    /\ UNCHANGED <<steps, seed, store>>

\* thread.join(timeout=timeout) returns at the timeout and the worker
\* is_alive(): the timeout result; the daemon thread is left running
JoinTimeout ==
    /\ pc = "joined"
    /\ st.worker = "running"
    /\ \E output \in {"", Output(st.script)} :
          st' = [st EXCEPT !.worker = "abandoned", !.timed_out = TRUE,
                           !.result = Result(FALSE, output, TimeoutError)]
    /\ pc' = "returned"
    /\ log' = [log EXCEPT !.results = Append(@, st'.result),
                          !.abandoned = @ \cup {[call |-> steps, script |-> st.script]}]
    /\ UNCHANGED <<steps, seed, store>>

\* an abandoned worker whose script ends after all
AbandonedWorkerEnds ==
    /\ pc # "killed"
    /\ \E w \in log.abandoned :
          /\ w.script.ends # "loops"
          /\ log' = [log EXCEPT !.abandoned = @ \ {w}]
    /\ UNCHANGED <<st, pc, steps, seed, store>>

\* RLIMIT_CPU counts the CPU time of the whole process: when the worker
\* threads have used it up the process gets SIGXCPU and SIGKILL and ends
CpuLimitReached ==
    /\ store.limited
    /\ pc # "killed"
    /\ (pc = "joined" /\ st.worker = "running") \/ log.abandoned # {}
    /\ pc' = "killed"
    /\ UNCHANGED <<st, steps, seed, store, log>>

NextExec ==
    \/ ExecCall
    \/ SetLimits
    \/ Setup
    \/ WorkerEnds
    \/ JoinReturns
    \/ JoinTimeout
    \/ AbandonedWorkerEnds
    \/ CpuLimitReached

\* the scheduler runs every thread and the join's timer expires
ExecSpec == InitExec /\ [][NextExec]_vars /\ WF_vars(NextExec)

\* the four results execute_safe may return
ResultKinds(r) ==
    { k \in {"success", "timeout", "runtime", "setup"} :
        \/ k = "success" /\ r.success /\ r.error = Null
        \/ k = "timeout" /\ ~r.success /\ r.error = TimeoutError
        \/ k = "setup" /\ ~r.success /\ r.error = SetupError
        \/ k = "runtime" /\ ~r.success /\ r.error \notin {Null, TimeoutError, SetupError} }

\* C30: execute_safe never blocks on a script that does not end: every call
\* that waits for its worker returns; a call whose script had not ended at
\* the timeout returns success = false with the timeout error, its worker
\* abandoned; every result is exactly one of success, timeout, runtime
\* exception and setup failure, with success = true iff error is null.
C30_ExecuteSafeReturns ==
    /\ [](pc = "returned" =>
            /\ Cardinality(ResultKinds(st.result)) = 1
            /\ st.result.success <=> (st.result.error = Null)
            /\ st.timed_out =>
                  /\ st.result.success = FALSE
                  /\ st.result.error = TimeoutError
                  /\ st.worker = "abandoned")
    /\ (pc = "joined" ~> pc = "returned")

\* ========================================================================
\* The transitions after a handler, the approval gate and the retry handler
\* ========================================================================

\* C31: after a handler node the next node is the approval gate if
\* approval_required and not approved; otherwise the retry handler if
\* should_continue and retry_count < max_retries; otherwise save-context.  A
\* state with both conditions goes to the approval gate.
C31_PostHandlerPriority ==
    [][ (pc \in HandlerNodes /\ steps' = steps + 1) =>
          LET gate == st'.approval_required /\ ~st'.approved
              retry == st'.should_continue /\ st'.retry_count < st'.max_retries
          IN /\ gate => pc' = "approval_gate"
             /\ (~gate /\ retry) => pc' = "retry_handler"
             /\ (~gate /\ ~retry) => pc' = "save_persistent_context"
      ]_vars

\* a handler left a state that asks for approval and for a retry, and the
\* approval gate is next
C31_Witness ==
    /\ pc = "approval_gate"
    /\ log.path[Len(log.path)] \in HandlerNodes
    /\ st.approval_required /\ ~st.approved
    /\ st.should_continue /\ st.retry_count < st.max_retries

\* In the specification below the approval gate and the retry handler are
\* taken on their own: a run stands at one of the two nodes with any intent
\* and any value of the control fields, and the node and its edge are applied.
InitGate ==
    /\ \E k \in ControlSeeds, intent \in Intents,
          node \in {"approval_gate", "retry_handler"} :
          /\ st = [WithUserMessage(SeededState(QMid, <<>>, k)) EXCEPT !.intent = intent]
          /\ pc = node
    /\ seed = st
    /\ store = InitialStore(DefaultIdentity, <<>>, {})
    /\ steps = 0
    /\ log = EmptyLog

NextGate ==
    \/ ApprovalGate
    \/ RetryHandler

GateSpec == InitGate /\ [][NextGate]_vars

\* C32: after the approval gate the next node is the sql handler iff
\* approved and intent = sql, the code handler iff approved and intent =
\* code, and save-context in every other case.
C32_ApprovalGateSuccessor ==
    [][ (pc = "approval_gate" /\ steps' = steps + 1) =>
          /\ pc' \in {"sql_agent", "code_agent", "save_persistent_context"}
          /\ pc' = "sql_agent" <=> (st'.approved /\ st'.intent = "sql")
          /\ pc' = "code_agent" <=> (st'.approved /\ st'.intent = "code")
      ]_vars

\* the gate was passed with approval by a run whose intent is code, and the
\* code handler is next
C32_Witness ==
    /\ pc = "code_agent"
    /\ log.path = <<"approval_gate">>
    /\ st.approved
    /\ st.intent = "code"
    /\ st.execution_status = "approved"

\* C33: the retry handler is a pure counter check.  It changes no field of
\* the state other than should_continue and execution_status, sets
\* should_continue = (retry_count < max_retries), sets the status failed when
\* the budget is used up, and its successor is the sql or code handler named
\* by intent when should_continue holds and save-context otherwise.
C33_RetryHandlerPureCounterCheck ==
    [][ (pc = "retry_handler" /\ steps' = steps + 1) =>
          LET under == st.retry_count < st.max_retries
          IN /\ \A k \in DOMAIN st \ {"should_continue", "execution_status"} :
                   st'[k] = st[k]
             /\ st'.should_continue = under
             /\ ~under => st'.execution_status = "failed"
             /\ under => st'.execution_status = st.execution_status
             /\ pc' = IF under /\ st.intent = "sql" THEN "sql_agent"
                      ELSE IF under /\ st.intent = "code" THEN "code_agent"
                      ELSE "save_persistent_context"
      ]_vars

\* C34: when a handler execution ends with execution_status = completed the
\* next node is save-context (so the handler is not dispatched again in the
\* run), also when an earlier attempt of the run failed and set
\* should_continue and retry_count is still below max_retries.
C34_CompletedHandlerEndsRun ==
    [][ ( /\ pc \in HandlerNodes
          /\ steps' = steps + 1
          /\ st'.execution_status = "completed" )
        => pc' = "save_persistent_context"
      ]_vars

\* C35: within a run no node modifies approved; the approval gate is
\* entered only with approved = false, sets execution_status =
\* requires_approval, requires_human_input = true and should_continue =
\* false, and proceeds to save-context: no handler is re-entered from the
\* approval gate in the same run.
C35_GateAlwaysEndsRun ==
    [][ /\ st'.approved = st.approved
        /\ (pc = "approval_gate" /\ steps' = steps + 1) =>
              /\ ~st.approved
              /\ st'.execution_status = "requires_approval"
              /\ st'.requires_human_input
              /\ ~st'.should_continue
              /\ pc' = "save_persistent_context"
      ]_vars

\* the sql handler flagged what it generated and the gate ended the run
C35_Witness ==
    /\ pc = "save_persistent_context"
    /\ log.path[Len(log.path)] = "approval_gate"
    /\ log.path[Len(log.path) - 1] = "sql_agent"
    /\ log.flagged # {}
    /\ st.execution_status = "requires_approval"
    /\ st.requires_human_input
    /\ ~st.should_continue

\* C36: the document-QA, research and open-chat handlers are each executed
\* at most once in a run, for every outcome of the handler and every seeded
\* should_continue, retry_count, approved and approval_required: the retry
\* handler and the approval gate re-dispatch the sql and code handlers only.
C36_SingleShotHandlers ==
    /\ Count("rag_agent") <= 1
    /\ Count("research_agent") <= 1
    /\ Count("chat_agent") + Count("fallback_handler") <= 1
    /\ \A i \in 2..Len(log.path) :
          log.path[i - 1] \in {"retry_handler", "approval_gate"} =>
              log.path[i] \in {"sql_agent", "code_agent", "save_persistent_context"}

\* the caller seeded should_continue, the document-QA handler ran, the retry
\* handler followed it and the run went on to save-context
C36_Witness ==
    /\ pc = "save_persistent_context"
    /\ seed.should_continue
    /\ Count("rag_agent") = 1
    /\ log.path[Len(log.path)] = "retry_handler"
    /\ log.path[Len(log.path) - 1] = "rag_agent"

\* C37: whenever save-context is reached in a run started with the default
\* status, execution_status is completed, failed or requires_approval, and a
\* completed run has a final answer.
C37_StatusAtSaveContext ==
    (pc = "save_persistent_context" /\ seed.execution_status = "pending") =>
        /\ st.execution_status \in {"completed", "failed", "requires_approval"}
        /\ st.execution_status = "completed" => st.final_answer # NoAnswer

\* the caller asked for approval, the sql handler generated a query that
\* passes validation and left the status pending, and the gate replaced it
C37_Witness ==
    /\ pc = "save_persistent_context"
    /\ seed.approval_required
    /\ log.flagged = {}
    /\ log.path[Len(log.path)] = "approval_gate"
    /\ log.path[Len(log.path) - 1] = "sql_agent"
    /\ st.execution_status = "requires_approval"

\* ------------------------------------------------------------------------
\* The user message of a run
\* ------------------------------------------------------------------------

\* C38: the classify-intent node appends the user query at most once: when
\* the last message already is a user message with the same content nothing
\* is appended and conversation_turn is unchanged, otherwise exactly one
\* user message is appended and conversation_turn grows by one.
C38_UserQueryAppendedOnce ==
    [][ (pc = "classify_intent" /\ steps' = steps + 1) =>
          LET current_query == UserContent(st.user_query)
              n == Len(st.messages)
              present == /\ n > 0
                         /\ st.messages[n].role = "user"
                         /\ st.messages[n].content = current_query
          IN  IF present
              THEN /\ st'.messages = st.messages
                   /\ st'.conversation_turn = st.conversation_turn
              ELSE /\ Len(st'.messages) = n + 1
                   /\ SubSeq(st'.messages, 1, n) = st.messages
                   /\ st'.messages[n + 1].role = "user"
                   /\ st'.messages[n + 1].content = current_query
                   /\ st'.conversation_turn = st.conversation_turn + 1
      ]_vars

\* ------------------------------------------------------------------------
\* The documents load-context hands on
\* ------------------------------------------------------------------------

\* C39: after load-context, uploaded_docs holds exactly the supplied paths
\* whose normalized absolute path was not registered for the (user,
\* workspace) before the run, each distinct normalized path at most once
\* (also when the supplied list names one file more than once), and
\* upsertDocument is called at most once per distinct normalized path.
C39_NewDocumentsOncePerPath ==
    [][ (pc = "load_persistent_context" /\ pc' = "classify_intent") =>
          LET registered ==
                  {AbsPath(d.file_path) :
                      d \in {r \in store.docs : /\ r.user_id = st.user_id
                                                /\ r.workspace_id = st'.workspace_id}}
              supplied == {st.uploaded_docs[i] : i \in 1..Len(st.uploaded_docs)}
              handed == st'.uploaded_docs
          IN  /\ \A i \in 1..Len(handed) :
                    handed[i] \in supplied /\ AbsPath(handed[i]) \notin registered
              /\ \A p \in supplied :
                    AbsPath(p) \notin registered =>
                        \E i \in 1..Len(handed) : AbsPath(handed[i]) = AbsPath(p)
              /\ \A i, j \in 1..Len(handed) :
                    AbsPath(handed[i]) = AbsPath(handed[j]) => i = j
              /\ log'.upserts <= Cardinality({AbsPath(p) : p \in supplied})
      ]_vars

\* ------------------------------------------------------------------------
\* The SQL risk classifier
\* ------------------------------------------------------------------------

\* SQL texts are sequences of tokens separated by single blanks; words are
\* already upper case
SqlTokens == {"SELECT", "T", ";", "DROP", "TABLE", "TRUNCATE", "--"}
MaxTokens == 4
SqlTexts == UNION { [1..n -> SqlTokens] : n \in 0..MaxTokens }

\* re.search(r'\bW\b'), re.search(r'\bA\s+B\b') and re.search(r';\s*B')
HasWord(sql, w) == \E i \in 1..Len(sql) : sql[i] = w
HasPair(sql, a, b) == \E i \in 1..(Len(sql) - 1) : sql[i] = a /\ sql[i + 1] = b
\* re.search(r'\bA\s+.*\s+B\b'): two blanks at least, so a token in between
HasSpan(sql, a, b) ==
    \E i, j \in 1..Len(sql) : i + 1 < j /\ sql[i] = a /\ sql[j] = b
\* re.search(r'/\*.*\*/')
HasBlock(sql) == \E i, j \in 1..Len(sql) : i < j /\ sql[i] = "/*" /\ sql[j] = "*/"

\* SQLValidator.DANGEROUS_PATTERNS, each with whether it is found in sql
DANGEROUS_PATTERNS(sql) ==
    << [found |-> HasPair(sql, "DROP", "TABLE"), description |-> "DROP TABLE operations"],
       [found |-> HasPair(sql, "DELETE", "FROM"), description |-> "DELETE operations"],
       [found |-> HasWord(sql, "TRUNCATE"), description |-> "TRUNCATE operations"],
       [found |-> HasPair(sql, "ALTER", "TABLE"), description |-> "ALTER TABLE operations"],
       [found |-> HasPair(sql, "CREATE", "TABLE"), description |-> "CREATE TABLE operations"],
       [found |-> HasPair(sql, "INSERT", "INTO"), description |-> "INSERT operations"],
       [found |-> HasSpan(sql, "UPDATE", "SET"), description |-> "UPDATE operations"],
       [found |-> HasPair(sql, ";", "DROP"), description |-> "Multiple statements with DROP"],
       [found |-> HasPair(sql, ";", "DELETE"), description |-> "Multiple statements with DELETE"],
       [found |-> HasWord(sql, "--"), description |-> "SQL comments (potential injection)"],
       [found |-> HasBlock(sql), description |-> "SQL block comments"] >>

\* SQLValidator.SAFE_PATTERNS: any of them is found in sql
SAFE_PATTERNS(sql) ==
    \/ \E w \in {"SELECT", "WITH", "FROM", "WHERE", "HAVING", "JOIN", "LIMIT"} :
          HasWord(sql, w)
    \/ HasPair(sql, "GROUP", "BY")
    \/ HasPair(sql, "ORDER", "BY")

\* the words the AST loop looks for among the tokens typed Keyword
AstDangerous == {"DELETE", "DROP", "UPDATE", "INSERT", "ALTER", "TRUNCATE", "CREATE"}

\* What sqlparse.parse does with a text: it raises, or it returns tokens of
\* which those in plain carry the type Keyword itself and the other words a
\* subtype of it (token.ttype is Keyword is an identity test)
ParseOutcomes ==
    { [raises |-> r, plain |-> p] :
        r \in BOOLEAN, p \in SUBSET {"DROP", "TRUNCATE", "SELECT"} }

SeqMap(Op(_), s) == [i \in 1..Len(s) |-> Op(s[i])]

\* SQLValidator.validate: if sql.count(';') > 1
SemicolonsMoreThanOne(sql) == Len(SelectSeq(sql, LAMBDA t : t = ";")) > 1

\* SQLValidator.validate.  parse: what sqlparse.parse does with the text
validate(sql, parse) ==
    LET hits == SelectSeq(DANGEROUS_PATTERNS(sql), LAMBDA d : d.found)
        issues1 == SeqMap(LAMBDA d : <<"Potentially dangerous", d.description>>, hits)
        risk1 == IF hits # <<>> THEN "high" ELSE "low"
        seen == SelectSeq(sql, LAMBDA t : t \in parse.plain /\ t \in AstDangerous)
        issues2 ==
            IF parse.raises
            THEN Append(issues1, <<"SQL parsing warning", "">>)
            ELSE issues1 \o
                 SeqMap(LAMBDA t : <<"Dangerous operation detected via AST", t>>, seen)
        risk2 == IF parse.raises THEN "medium"
                 ELSE IF seen # <<>> THEN "high" ELSE risk1
        has_safe_pattern ==
            \/ SAFE_PATTERNS(sql)
            \/ ~parse.raises /\ "SELECT" \in parse.plain /\ HasWord(sql, "SELECT")
        not_select == ~has_safe_pattern /\ issues2 = <<>>
        issues3 == IF not_select
                   THEN Append(issues2, <<"Query doesn't appear to be a SELECT query", "">>)
                   ELSE issues2
        risk3 == IF not_select THEN "medium" ELSE risk2
        multiple == SemicolonsMoreThanOne(sql)
        issues == IF multiple
                  THEN Append(issues3, <<"Multiple statements detected", "">>)
                  ELSE issues3
        risk_level == IF multiple THEN "high" ELSE risk3
    IN [ is_safe |-> issues = <<>> /\ has_safe_pattern,
         risk_level |-> risk_level,
         issues |-> issues,
         requires_approval |-> risk_level \in {"medium", "high"} ]

\* no verdict yet
NoVerdict ==
    [ is_safe |-> FALSE, risk_level |-> "none", issues |-> <<>>,
      requires_approval |-> FALSE ]

\* a text handed to the validator; seed is the text, st the verdict, log
\* what the parser did
InitValidator ==
    /\ seed \in SqlTexts
    /\ st = NoVerdict
    /\ pc = "validate"
    /\ steps = 0
    /\ store = <<>>
    /\ log = [raises |-> FALSE, plain |-> {}]

\* SQLValidator.validate(sql)
Validate ==
    /\ pc = "validate"
    /\ \E parse \in ParseOutcomes :
          /\ st' = validate(seed, parse)
          /\ log' = parse
    /\ pc' = "validated"
    /\ steps' = steps + 1
    /\ UNCHANGED <<seed, store>>

NextValidator == Validate

ValidatorSpec == InitValidator /\ [][NextValidator]_vars

\* the statements of a text: the runs of tokens between semicolons
Statements(sql) ==
    Cardinality({ i \in 1..Len(sql) :
                    sql[i] # ";" /\ (i = 1 \/ sql[i - 1] = ";") })

\* C40: the SQL risk classifier flags every input containing more than one
\* statement as high risk, requiring approval, also two statements
\* separated by a single semicolon with no dangerous keyword.
C40_MultipleStatementsHighRisk ==
    (pc = "validated" /\ Statements(seed) > 1) =>
        st.risk_level = "high" /\ st.requires_approval

====
